---- MODULE Spec2Model ----
(***************************************************************************)
(* Brainstorm-flow server: one run of the three-stage pipeline driven by   *)
(* POST /run (server/src/routes/runRoutes.ts), runPipeline                 *)
(* (server/src/pipeline/runPipeline.ts) and generateIdeas                  *)
(* (server/src/services/gemini.ts).  Every `await` of runPipeline is one   *)
(* step; a step that awaits a file-system call either performs the write   *)
(* or throws the rejection of that call.                                   *)
(*                                                                         *)
(* Specifications:                                                         *)
(*   Spec       one POST /run with valid texts and every n, k; the whole   *)
(*              run                                                        *)
(*   SpecSeed   one POST /run with every goal / audience / constraints     *)
(*              text, through the Seed stage                               *)
(*   SpecClamp  runPipeline called by POST /run or directly with any       *)
(*              integer n, k, up to the call of generateIdeas              *)
(*   SpecStart  several POST /run requests, the clock, run IDs, run        *)
(*              directories and the hub's emitters                         *)
(*   SpecHub    RunEventHub (server/src/events/runEvents.ts): one run, its *)
(*              subscribers, heartbeat and cleanup timers                  *)
(***************************************************************************)
EXTENDS Integers, Sequences, FiniteSets, TLC

VARIABLES
  body,        \* req.body of the POST /run request
  pc,          \* position of the request handler / runPipeline
  seed,        \* the SeedInput runPipeline was called with
  state,       \* the in-memory PipelineRunState of runPipeline (<<>> before line 205)
  stateJson,   \* content of <runDir>/state.json (<<>> while the file does not exist)
  files,       \* the other files written under runsDir
  events,      \* the events emitted on the run's emitter, in order
  calls,       \* the upstream responses to client.models.generateContent, in order
  idx,         \* generateIdeas: index of the current entry of `attempts`
  lastError,   \* generateIdeas: lastError
  generatedIdeas, \* runPipeline: the ideas generateIdeas returned
  ideas,       \* runPipeline: ideas
  message,     \* runPipeline: message of the error caught by the catch block
  rejection,   \* the error runPipeline's promise was rejected with
  httpStatus,  \* status code POST /run answered with (0: no answer yet)
  ioFailed,    \* history: some file-system call of the run has thrown
  runId,       \* the run ID POST /run created for the run (<<>> before)
  now,         \* the last instant read from the clock (new Date()), in ms
  runs,        \* server: the POST /run requests handled so far and their runs
  emitterObjs, \* the EventEmitter objects hub.create constructed
  emitters,    \* RunEventHub.emitters: run ID -> EventEmitter
  subscriptions, \* the Subscription objects hub.subscribe constructed
  subscribers, \* RunEventHub.subscribers: run ID -> Set<Subscription>, in insertion order
  timers,      \* the pending setTimeout callbacks of scheduleCleanup (their run IDs)
  disk,        \* server: run directory name -> content of its state.json
  log,         \* history: run ID -> the events the hub's listener was called with
  response     \* the response to the latest GET request

hubVars == <<emitterObjs, emitters, subscriptions, subscribers, timers, log>>

vars == <<body, pc, seed, state, stateJson, files, events, calls, idx, lastError,
          generatedIdeas, ideas, message, rejection, httpStatus, ioFailed,
          runId, now, runs, hubVars, disk, response>>

----------------------------------------------------------------------------
(* Bounds of the model *)

MaxSeedN == 7      \* largest n a request body carries
MaxSeedK == 3      \* largest k a request body carries
MaxReturned == 7   \* largest number of ideas one upstream response carries
MaxStrLen == 2     \* longest goal / audience / constraints text of a request body
MaxBelowZero == 2  \* most negative n or k of a direct call of runPipeline
MaxTicks == 2      \* milliseconds the clock advances during a behaviour
MaxRequests == 2   \* POST /run requests the server handles
MaxSubs == 2       \* GET /runs/:id/events connections
MaxNodeEvents == 1 \* node events a run emits between `running` and its last event

(* Program constants *)

MAX_DIVERGE_IDEAS == 6
defaultN == 6
defaultK == 3

Undefined == "undefined"
E_IO == "EIO: file system call failed"
E_UPSTREAM == "upstream request failed"
E_NO_TEXT == "Gemini response missing text content."
E_NOT_JSON == "Gemini response was not valid JSON."
E_EMPTY_IDEAS == "Gemini JSON \"ideas\" must be a non-empty array."

Min(a, b) == IF a <= b THEN a ELSE b
Max(a, b) == IF a >= b THEN a ELSE b

(* An optional value: <<>> (undefined / null) or <<v>>. *)
Opt(S) == {<<>>} \cup {<<v>> : v \in S}
OrElse(o, d) == IF o = <<>> THEN d ELSE o[1]

NodeKey == {"seed", "divergeGenerate", "packageOutput"}

(* Texts: sequences of characters, " " standing for white space *)
Chars == {" ", "x"}
Str == UNION {[1..len -> Chars] : len \in 0..MaxStrLen}
ValidText == <<"x">>

(* String.prototype.trim: white space removed from both ends *)
trim(s) ==
  LET inked == {i \in 1..Len(s) : s[i] # " "}
  IN  IF inked = {} THEN <<>>
      ELSE SubSeq(s, CHOOSE i \in inked : \A j \in inked : i <= j,
                     CHOOSE i \in inked : \A j \in inked : i >= j)

(* The variables that runPipeline and generateIdeas never touch *)
outerVars == <<body, runId, now, runs, hubVars, disk, response>>

----------------------------------------------------------------------------
(* Time and run IDs.  An instant is a number of milliseconds; the model    *)
(* keeps the minutes, seconds and milliseconds of Date.toISOString(),      *)
(* "mm:ss.SSSZ", the part that differs between two runs of one hour.       *)

Epoch == 999
MaxClock == Epoch + MaxTicks

DigitChars == <<"0", "1", "2", "3", "4", "5", "6", "7", "8", "9">>

RECURSIVE Pow10(_)
Pow10(e) == IF e = 0 THEN 1 ELSE 10 * Pow10(e - 1)

(* v in decimal, zero-padded to `width` digits *)
Digits(v, width) ==
  [i \in 1..width |-> DigitChars[((v \div Pow10(width - i)) % 10) + 1]]

toISOString(t) ==
  Digits((t \div 60000) % 60, 2) \o <<":">> \o Digits((t \div 1000) % 60, 2)
    \o <<".">> \o Digits(t % 1000, 3) \o <<"Z">>

(* date.toISOString().replace(/[:.]/g, '-') *)
createRunId(t) ==
  [i \in DOMAIN toISOString(t) |->
     IF toISOString(t)[i] \in {":", "."} THEN "-" ELSE toISOString(t)[i]]

(* new Date(iso).getTime() *)
DigitValue(c) == CHOOSE d \in 0..9 : DigitChars[d + 1] = c
getTime(iso) ==
  (DigitValue(iso[1]) * 10 + DigitValue(iso[2])) * 60000
    + (DigitValue(iso[4]) * 10 + DigitValue(iso[5])) * 1000
    + DigitValue(iso[7]) * 100 + DigitValue(iso[8]) * 10 + DigitValue(iso[9])

(* Map operations *)
Put(map, key, v) == [x \in DOMAIN map \cup {key} |-> IF x = key THEN v ELSE map[x]]
Remove(map, key) == [x \in DOMAIN map \ {key} |-> map[x]]
Range(s) == {s[i] : i \in DOMAIN s}

(* { ...r, ...u } *)
Merge(r, u) == [f \in DOMAIN r |-> IF f \in DOMAIN u THEN u[f] ELSE r[f]]

----------------------------------------------------------------------------
(* runPipeline: the clamped parameters *)

sanitizeSeed(s) ==
  [goal |-> trim(s.goal), audience |-> trim(s.audience),
   constraints |-> trim(s.constraints), n |-> s.n, k |-> s.k]

sanitized == sanitizeSeed(seed)
requestedIdeas == OrElse(sanitized.n, defaultN)
requestedTopK == OrElse(sanitized.k, defaultK)
(* Mutant: the ceiling is not applied *)
ideaCount_uncapped == requestedIdeas

ideaCount == Min(MAX_DIVERGE_IDEAS, requestedIdeas)
effectiveTopK == Max(1, Min(requestedTopK, ideaCount))
plannedTopK == effectiveTopK

(* A node of the state; startedAt / finishedAt record whether the field is set *)
PendingNode(input) ==
  [status |-> "pending", input |-> input, output |-> <<>>, error |-> Undefined,
   startedAt |-> FALSE, finishedAt |-> FALSE]

InitialState ==
  [status |-> "running",
   error |-> Undefined,
   nodes |-> [id \in NodeKey |->
                PendingNode(IF id = "seed" THEN "sanitized" ELSE "null")]]

(* The events of RunEvent *)
RunStatusEvent(status, error) ==
  [type |-> "run-status", nodeId |-> "", status |-> status, error |-> error]
NodeStatusEvent(nodeId, status, error) ==
  [type |-> "node-status", nodeId |-> nodeId, status |-> status, error |-> error]
NodeIOEvent(nodeId) ==
  [type |-> "node-io", nodeId |-> nodeId, status |-> "", error |-> Undefined]

----------------------------------------------------------------------------
(* Exceptions.  A throw inside the try block of the Generate stage enters  *)
(* the catch block; every other throw rejects runPipeline's promise.       *)

(* Mutant: the catch block records a fixed message instead of the error's *)
Raise_fixedMessage(err, inTry) ==
  /\ pc' = IF inTry THEN "catch_updateNode" ELSE "rejected"
  /\ message' = IF inTry THEN "Idea generation failed" ELSE message
  /\ rejection' = IF inTry THEN rejection ELSE err

Raise(err, inTry) ==
  /\ pc' = IF inTry THEN "catch_updateNode" ELSE "rejected"
  /\ message' = IF inTry THEN err ELSE message
  /\ rejection' = IF inTry THEN rejection ELSE err

(* An awaited file-system call: it completes (done) or it throws. *)
Await(inTry, done) ==
  \/ /\ done
     /\ UNCHANGED <<message, rejection, ioFailed>>
  \/ /\ ioFailed' = TRUE
     /\ Raise(E_IO, inTry)
     /\ UNCHANGED <<stateJson, files, events>>

(* updateNode followed by the emits that follow it before the next await *)
updateNode(nodeId, updates, emitted, next, inTry) ==
  /\ state' = <<[state[1] EXCEPT !.nodes[nodeId] = Merge(@, updates)]>>
  /\ Await(inTry, /\ stateJson' = state'
                  /\ events' = events \o emitted
                  /\ pc' = next
                  /\ UNCHANGED files)

(* startedAt for running, finishedAt for every other status *)
Timestamp(status) ==
  IF status = "running" THEN [startedAt |-> TRUE] ELSE [finishedAt |-> TRUE]

(* { ...a, ...b } of two update records *)
With(a, b) ==
  [f \in DOMAIN a \cup DOMAIN b |-> IF f \in DOMAIN b THEN b[f] ELSE a[f]]

(* Mutant: the status is left out of the update *)
markNodeStatusUpdates_statusDropped(status, error) ==
  IF status = "failed" /\ error # Undefined
    THEN With(Timestamp(status), [error |-> error])
    ELSE Timestamp(status)

markNodeStatusUpdates(status, error) ==
  IF status = "failed" /\ error # Undefined
    THEN With(With([status |-> status], Timestamp(status)), [error |-> error])
    ELSE With([status |-> status], Timestamp(status))

markNodeStatus(nodeId, status, error, next, inTry) ==
  updateNode(nodeId, markNodeStatusUpdates(status, error),
             <<NodeStatusEvent(nodeId, status, error)>>, next, inTry)

(* Mutant: the stage artifact is not written *)
persistNodeIO_notWritten(nodeId, emitted, next, inTry) ==
  Await(inTry, /\ events' = events \o emitted
               /\ pc' = next
               /\ UNCHANGED <<stateJson, files>>)

(* persistNodeIO followed by the emits that follow it before the next await *)
persistNodeIO(nodeId, emitted, next, inTry) ==
  Await(inTry, /\ files' = files \cup {"node_io/" \o nodeId \o ".json"}
               /\ events' = events \o emitted
               /\ pc' = next
               /\ UNCHANGED stateJson)

----------------------------------------------------------------------------
(* The request bodies of the pipeline specification: valid texts, every n and k *)
Bodies ==
  [goal : {<<ValidText>>}, audience : {<<ValidText>>}, constraints : {<<ValidText>>},
   n : Opt(0..MaxSeedN), k : Opt(0..MaxSeedK)]

NoSeed == [goal |-> <<>>, audience |-> <<>>, constraints |-> <<>>, n |-> <<>>, k |-> <<>>]

InitRun ==
  /\ pc = "idle"
  /\ seed = NoSeed
  /\ state = <<>>
  /\ stateJson = <<>>
  /\ files = {}
  /\ events = <<>>
  /\ calls = <<>>
  /\ idx = 0
  /\ lastError = Undefined
  /\ generatedIdeas = <<>>
  /\ ideas = <<>>
  /\ message = Undefined
  /\ rejection = Undefined
  /\ httpStatus = 0
  /\ ioFailed = FALSE
  /\ runId = <<>>

(* new RunEventHub(), an empty runs directory *)
(* no GET request has been answered *)
NoResponse == [route |-> "", id |-> <<>>, status |-> 0, error |-> "", states |-> {}]

E_JSON == "SyntaxError: Unexpected end of JSON input"
E_NOT_FOUND == "Run not found."
E_NO_CHANNEL == "Run not found or finished."

(* res.json(...) and res.status(...).json({ error }) of the GET routes *)
Answer(route, id, status, error, states) ==
  [route |-> route, id |-> id, status |-> status, error |-> error, states |-> states]

(* the run IDs a client may ask for: those of the run directories and      *)
(* those of every instant of the clock                                     *)
RequestedIds == DOMAIN disk \cup {createRunId(t) : t \in Epoch..MaxClock}

InitServer ==
  /\ now = Epoch
  /\ response = NoResponse
  /\ runs = <<>>
  /\ emitterObjs = <<>>
  /\ emitters = <<>>
  /\ subscriptions = <<>>
  /\ subscribers = <<>>
  /\ timers = <<>>
  /\ disk = <<>>
  /\ log = <<>>

Init ==
  /\ body \in Bodies
  /\ InitRun
  /\ InitServer

(* hub.create(id): a new emitter whose listener the hub attaches *)
create(id) ==
  /\ emitterObjs' = Append(emitterObjs, [runId |-> id, listening |-> TRUE])
  /\ emitters' = Put(emitters, id, Len(emitterObjs) + 1)

(* normalizeSeed: `!goal || !audience || !constraints`; undefined and "" are falsy *)
Truthy(text) == text # <<>> /\ text[1] # <<>>

RequiredFieldsPresent(b) ==
  Truthy(b.goal) /\ Truthy(b.audience) /\ Truthy(b.constraints)

(* normalizeSeed: the checks on n and k *)
normalizeSeedAccepts(n, k) ==
  /\ n # <<>> => n[1] > 0
  /\ k # <<>> => k[1] > 0

normalizeSeedThrows(b) ==
  ~RequiredFieldsPresent(b) \/ ~normalizeSeedAccepts(b.n, b.k)

normalizeSeed(b) ==
  [goal |-> b.goal[1], audience |-> b.audience[1], constraints |-> b.constraints[1],
   n |-> b.n, k |-> b.k]

(* Mutant: the handler answers only after runPipeline has settled *)
PostRun_awaitsPipeline ==
  /\ pc = "idle"
  /\ ~normalizeSeedThrows(body)
  /\ seed' = normalizeSeed(body)
  /\ pc' = "ensureRunsDir"
  /\ runId' = <<createRunId(now)>>
  /\ create(createRunId(now))
  /\ UNCHANGED <<state, stateJson, files, events, calls, idx, lastError,
                 generatedIdeas, ideas, message, rejection, ioFailed, httpStatus>>
  /\ UNCHANGED <<body, now, runs, subscriptions, subscribers, timers, log, disk, response>>

(* POST /run, accepted: 202 and runPipeline starts *)
PostRun ==
  /\ pc = "idle"
  /\ ~normalizeSeedThrows(body)
  /\ seed' = normalizeSeed(body)
  /\ runId' = <<createRunId(now)>>
  /\ create(createRunId(now))
  /\ httpStatus' = 202
  /\ pc' = "ensureRunsDir"
  /\ UNCHANGED <<state, stateJson, files, events, calls, idx, lastError,
                 generatedIdeas, ideas, message, rejection, ioFailed>>
  /\ UNCHANGED <<body, now, runs, subscriptions, subscribers, timers, log, disk, response>>

(* POST /run, normalizeSeed throws: 400 *)
PostRunBadRequest ==
  /\ pc = "idle"
  /\ normalizeSeedThrows(body)
  /\ httpStatus' = 400
  /\ pc' = "badRequest"
  /\ UNCHANGED <<seed, state, stateJson, files, events, calls, idx, lastError,
                 generatedIdeas, ideas, message, rejection, ioFailed>>
  /\ UNCHANGED outerVars

----------------------------------------------------------------------------
(* runPipeline, up to the first emit *)

adapterVars == <<calls, idx, lastError, generatedIdeas>>

EnsureRunsDir ==
  /\ pc = "ensureRunsDir"
  /\ Await(FALSE, /\ files' = files \cup {"runsDir/"}
                  /\ pc' = "ensureRunDir"
                  /\ UNCHANGED <<stateJson, events>>)
  /\ UNCHANGED <<seed, state, adapterVars, ideas, httpStatus>>
  /\ UNCHANGED outerVars

EnsureRunDir ==
  /\ pc = "ensureRunDir"
  /\ Await(FALSE, /\ files' = files \cup {"runDir/"}
                  /\ pc' = "persistGraph"
                  /\ UNCHANGED <<stateJson, events>>)
  /\ UNCHANGED <<seed, state, adapterVars, ideas, httpStatus>>
  /\ UNCHANGED outerVars

PersistGraph ==
  /\ pc = "persistGraph"
  /\ Await(FALSE, /\ files' = files \cup {"graph.json"}
                  /\ pc' = "persistInitialState"
                  /\ UNCHANGED <<stateJson, events>>)
  /\ UNCHANGED <<seed, state, adapterVars, ideas, httpStatus>>
  /\ UNCHANGED outerVars

(* lines 191-235: sanitize, clamp, build the state, persist it, emit running *)
PersistInitialState ==
  /\ pc = "persistInitialState"
  /\ state' = <<InitialState>>
  /\ Await(FALSE, /\ stateJson' = state'
                  /\ events' = Append(events, RunStatusEvent("running", Undefined))
                  /\ pc' = "seed_markRunning"
                  /\ UNCHANGED files)
  /\ UNCHANGED <<seed, adapterVars, ideas, httpStatus>>
  /\ UNCHANGED outerVars

----------------------------------------------------------------------------
(* Seed stage, lines 272-300 *)

seedOutput ==
  [details |-> [goal |-> sanitized.goal, audience |-> sanitized.audience,
                constraints |-> sanitized.constraints],
   requestedIdeas |-> ideaCount, topK |-> plannedTopK]

SeedMarkRunning ==
  /\ pc = "seed_markRunning"
  /\ markNodeStatus("seed", "running", Undefined, "seed_updateOutput", FALSE)
  /\ UNCHANGED <<seed, adapterVars, ideas, httpStatus>>
  /\ UNCHANGED outerVars

SeedUpdateOutput ==
  /\ pc = "seed_updateOutput"
  /\ updateNode("seed", [output |-> <<seedOutput>>], <<>>, "seed_markCompleted", FALSE)
  /\ UNCHANGED <<seed, adapterVars, ideas, httpStatus>>
  /\ UNCHANGED outerVars

(* Mutant: the Generate stage is started without the Seed stage being completed *)
SeedMarkCompleted_notMarked ==
  /\ pc = "seed_markCompleted"
  /\ pc' = "seed_persistNodeIO"
  /\ UNCHANGED <<seed, state, stateJson, files, events, adapterVars, ideas,
                 message, rejection, httpStatus, ioFailed>>
  /\ UNCHANGED outerVars

SeedMarkCompleted ==
  /\ pc = "seed_markCompleted"
  /\ markNodeStatus("seed", "completed", Undefined, "seed_persistNodeIO", FALSE)
  /\ UNCHANGED <<seed, adapterVars, ideas, httpStatus>>
  /\ UNCHANGED outerVars

SeedPersistNodeIO ==
  /\ pc = "seed_persistNodeIO"
  /\ persistNodeIO("seed", <<NodeIOEvent("seed")>>, "diverge_markRunning", FALSE)
  /\ UNCHANGED <<seed, state, adapterVars, ideas, httpStatus>>
  /\ UNCHANGED outerVars

----------------------------------------------------------------------------
(* Generate stage, lines 302-351, and generateIdeas *)

DivergeMarkRunning ==
  /\ pc = "diverge_markRunning"
  /\ markNodeStatus("divergeGenerate", "running", Undefined, "generateIdeas", FALSE)
  /\ UNCHANGED <<seed, adapterVars, ideas, httpStatus>>
  /\ UNCHANGED outerVars

(* What the upstream service can answer to one generateContent call: the   *)
(* call rejects ("error"), the response has no text ("empty"), the text is *)
(* not JSON ("badjson"), or it is {"ideas": [...]} with n well-formed      *)
(* ideas ("json").                                                         *)
Responses ==
  [kind : {"error", "empty", "badjson"}, n : {0}] \cup [kind : {"json"}, n : 0..MaxReturned]

(* The ideas of a response, named 1..n in the order the service returned them *)
IdeasOf(n) == [i \in 1..n |-> i]

(* Mutant: a list of one idea is rejected as empty *)
parseIdeas_rejectsSingleIdea(resp) ==
  IF resp.kind = "badjson" THEN [ok |-> FALSE, ideas |-> <<>>, err |-> E_NOT_JSON]
  ELSE IF resp.n <= 1 THEN [ok |-> FALSE, ideas |-> <<>>, err |-> E_EMPTY_IDEAS]
  ELSE [ok |-> TRUE, ideas |-> IdeasOf(resp.n), err |-> Undefined]

(* parseIdeas on the text of a response with text *)
parseIdeas(resp) ==
  IF resp.kind = "badjson" THEN [ok |-> FALSE, ideas |-> <<>>, err |-> E_NOT_JSON]
  ELSE IF resp.n = 0 THEN [ok |-> FALSE, ideas |-> <<>>, err |-> E_EMPTY_IDEAS]
  ELSE [ok |-> TRUE, ideas |-> IdeasOf(resp.n), err |-> Undefined]

(* The body of the try block of one attempt, lines 141-162 *)
attemptBody(resp) ==
  IF resp.kind = "error" THEN [ok |-> FALSE, ideas |-> <<>>, err |-> E_UPSTREAM]
  ELSE IF resp.kind = "empty" THEN [ok |-> FALSE, ideas |-> <<>>, err |-> E_NO_TEXT]
  ELSE parseIdeas(resp)

(* Mutant: a third attempt *)
attempts_three == <<[useSchema |-> TRUE], [useSchema |-> FALSE], [useSchema |-> FALSE]>>

attempts == <<[useSchema |-> TRUE], [useSchema |-> FALSE]>>

(* Mutant: an upstream service error ends the loop *)
AfterFailedAttempt_stopOnServiceError(i, err) ==
  IF err = E_UPSTREAM THEN Len(attempts) ELSE i + 1

(* catch (err) { lastError = err } and the loop's next index *)
AfterFailedAttempt(i, err) == i + 1

GenerateAttempt ==
  /\ pc = "generateIdeas"
  /\ idx < Len(attempts)
  /\ \E resp \in Responses :
       /\ calls' = Append(calls, resp)
       /\ LET r == attemptBody(resp) IN
            IF r.ok
              THEN /\ generatedIdeas' = r.ideas
                   /\ pc' = "diverge_updateOutput"
                   /\ UNCHANGED <<idx, lastError>>
              ELSE /\ lastError' = r.err
                   /\ idx' = AfterFailedAttempt(idx, r.err)
                   /\ UNCHANGED <<pc, generatedIdeas>>
  /\ UNCHANGED <<seed, state, stateJson, files, events, ideas, message,
                 rejection, httpStatus, ioFailed>>
  /\ UNCHANGED outerVars

(* line 168: throw lastError *)
GenerateGiveUp ==
  /\ pc = "generateIdeas"
  /\ idx >= Len(attempts)
  /\ Raise(lastError, TRUE)
  /\ UNCHANGED <<seed, state, stateJson, files, events, adapterVars, ideas,
                 httpStatus, ioFailed>>
  /\ UNCHANGED outerVars

(* Mutant: the list is not cut *)
slice_whole(s, end) == s

(* Array.prototype.slice(0, end); a negative end counts from the end *)
slice(s, end) ==
  SubSeq(s, 1, IF end < 0 THEN Max(Len(s) + end, 0) ELSE Min(Len(s), end))

divergeOutput(limitedIdeas) ==
  [ideaCount |-> Len(limitedIdeas), requestedIdeas |-> ideaCount, ideas |-> limitedIdeas]

DivergeUpdateOutput ==
  /\ pc = "diverge_updateOutput"
  /\ ideas' = slice(generatedIdeas, ideaCount)
  /\ updateNode("divergeGenerate",
                [input |-> "n+seed", output |-> <<divergeOutput(ideas')>>,
                 finishedAt |-> TRUE, startedAt |-> TRUE],
                <<>>, "diverge_markCompleted", TRUE)
  /\ UNCHANGED <<seed, adapterVars, httpStatus>>
  /\ UNCHANGED outerVars

DivergeMarkCompleted ==
  /\ pc = "diverge_markCompleted"
  /\ markNodeStatus("divergeGenerate", "completed", Undefined, "diverge_persistNodeIO", TRUE)
  /\ UNCHANGED <<seed, adapterVars, ideas, httpStatus>>
  /\ UNCHANGED outerVars

DivergePersistNodeIO ==
  /\ pc = "diverge_persistNodeIO"
  /\ persistNodeIO("divergeGenerate", <<NodeIOEvent("divergeGenerate")>>,
                   "package_markRunning", TRUE)
  /\ UNCHANGED <<seed, state, adapterVars, ideas, httpStatus>>
  /\ UNCHANGED outerVars

----------------------------------------------------------------------------
(* The catch block of the Generate stage, lines 352-380 *)

CatchUpdateNode ==
  /\ pc = "catch_updateNode"
  /\ updateNode("divergeGenerate", [input |-> "n+seed", error |-> message],
                <<>>, "catch_markFailed", FALSE)
  /\ UNCHANGED <<seed, adapterVars, ideas, httpStatus>>
  /\ UNCHANGED outerVars

(* Mutant: the failure is recorded on every stage *)
CatchMarkFailed_everyStage ==
  /\ pc = "catch_markFailed"
  /\ state' = <<[state[1] EXCEPT !.nodes =
                   [n \in NodeKey |-> Merge(@[n], markNodeStatusUpdates("failed", message))]]>>
  /\ Await(FALSE, /\ stateJson' = state'
                  /\ events' = Append(events, NodeStatusEvent("divergeGenerate", "failed", message))
                  /\ pc' = "catch_persistNodeIO"
                  /\ UNCHANGED files)
  /\ UNCHANGED <<seed, adapterVars, ideas, httpStatus>>
  /\ UNCHANGED outerVars

CatchMarkFailed ==
  /\ pc = "catch_markFailed"
  /\ markNodeStatus("divergeGenerate", "failed", message, "catch_persistNodeIO", FALSE)
  /\ UNCHANGED <<seed, adapterVars, ideas, httpStatus>>
  /\ UNCHANGED outerVars

CatchPersistNodeIO ==
  /\ pc = "catch_persistNodeIO"
  /\ persistNodeIO("divergeGenerate", <<RunStatusEvent("failed", message)>>,
                   "catch_persistRunState", FALSE)
  /\ UNCHANGED <<seed, state, adapterVars, ideas, httpStatus>>
  /\ UNCHANGED outerVars

(* Mutant: the error is not rethrown and execution falls through to Package *)
CatchExit_noRethrow(err) ==
  /\ pc' = "package_markRunning"
  /\ rejection' = rejection

(* line 379: throw error *)
CatchExit(err) ==
  /\ pc' = "rejected"
  /\ rejection' = err

CatchPersistRunState ==
  /\ pc = "catch_persistRunState"
  /\ state' = <<[state[1] EXCEPT !.status = "failed", !.error = message]>>
  /\ \/ /\ stateJson' = state'
        /\ CatchExit(message)
        /\ UNCHANGED <<message, ioFailed>>
     \/ /\ ioFailed' = TRUE
        /\ Raise(E_IO, FALSE)
        /\ UNCHANGED stateJson
  /\ UNCHANGED <<seed, files, events, adapterVars, ideas, httpStatus>>
  /\ UNCHANGED outerVars

----------------------------------------------------------------------------
(* Package stage and completion, lines 382-450 *)

k == Max(1, Min(Len(ideas), plannedTopK))
(* Mutant: the last k ideas are taken *)
selectedIdeas_lastK == SubSeq(ideas, Len(ideas) - Min(Len(ideas), k) + 1, Len(ideas))

selectedIdeas == slice(ideas, k)

packageOutput ==
  [selectedCount |-> Len(selectedIdeas), totalGenerated |-> Len(ideas),
   selected |-> selectedIdeas]

PackageMarkRunning ==
  /\ pc = "package_markRunning"
  /\ markNodeStatus("packageOutput", "running", Undefined, "package_updateOutput", FALSE)
  /\ UNCHANGED <<seed, adapterVars, ideas, httpStatus>>
  /\ UNCHANGED outerVars

PackageUpdateOutput ==
  /\ pc = "package_updateOutput"
  /\ updateNode("packageOutput", [input |-> "k+ideas", output |-> <<packageOutput>>],
                <<>>, "package_markCompleted", FALSE)
  /\ UNCHANGED <<seed, adapterVars, ideas, httpStatus>>
  /\ UNCHANGED outerVars

PackageMarkCompleted ==
  /\ pc = "package_markCompleted"
  /\ markNodeStatus("packageOutput", "completed", Undefined, "package_persistNodeIO", FALSE)
  /\ UNCHANGED <<seed, adapterVars, ideas, httpStatus>>
  /\ UNCHANGED outerVars

PackagePersistNodeIO ==
  /\ pc = "package_persistNodeIO"
  /\ persistNodeIO("packageOutput", <<>>, "persistBrief", FALSE)
  /\ UNCHANGED <<seed, state, adapterVars, ideas, httpStatus>>
  /\ UNCHANGED outerVars

(* Mutant: the completion of the run is announced with the brief as well *)
PersistBrief_announcesCompletion ==
  /\ pc = "persistBrief"
  /\ Await(FALSE, /\ files' = files \cup {"brief.md"}
                  /\ events' = events \o <<NodeIOEvent("packageOutput"),
                                            RunStatusEvent("completed", Undefined)>>
                  /\ pc' = "persistCompleted"
                  /\ UNCHANGED stateJson)
  /\ UNCHANGED <<seed, state, adapterVars, ideas, httpStatus>>
  /\ UNCHANGED outerVars

PersistBrief ==
  /\ pc = "persistBrief"
  /\ Await(FALSE, /\ files' = files \cup {"brief.md"}
                  /\ events' = Append(events, NodeIOEvent("packageOutput"))
                  /\ pc' = "persistCompleted"
                  /\ UNCHANGED stateJson)
  /\ UNCHANGED <<seed, state, adapterVars, ideas, httpStatus>>
  /\ UNCHANGED outerVars

PersistCompleted ==
  /\ pc = "persistCompleted"
  /\ state' = <<[state[1] EXCEPT !.status = "completed"]>>
  /\ Await(FALSE, /\ stateJson' = state'
                  /\ pc' = "persistUsage"
                  /\ UNCHANGED <<files, events>>)
  /\ UNCHANGED <<seed, adapterVars, ideas, httpStatus>>
  /\ UNCHANGED outerVars

(* Mutant: the usage write is followed by one more write of the run state *)
PersistUsage_thenState ==
  /\ pc = "persistUsage"
  /\ state' = <<[state[1] EXCEPT !.error = "usage recorded"]>>
  /\ Await(FALSE, /\ files' = files \cup {"token_usage.json"}
                  /\ events' = Append(events, RunStatusEvent("completed", Undefined))
                  /\ pc' = "resolved"
                  /\ stateJson' = state')
  /\ UNCHANGED <<seed, adapterVars, ideas, httpStatus>>
  /\ UNCHANGED outerVars

PersistUsage ==
  /\ pc = "persistUsage"
  /\ Await(FALSE, /\ files' = files \cup {"token_usage.json"}
                  /\ events' = Append(events, RunStatusEvent("completed", Undefined))
                  /\ pc' = "resolved"
                  /\ UNCHANGED stateJson)
  /\ UNCHANGED <<seed, state, adapterVars, ideas, httpStatus>>
  /\ UNCHANGED outerVars

(* POST /run: runPipeline(...).catch(error => console.error(...)) *)
RouteCatch ==
  /\ pc = "rejected"
  /\ pc' = "logged"
  /\ UNCHANGED <<seed, state, stateJson, files, events, adapterVars, ideas,
                 message, rejection, httpStatus, ioFailed>>
  /\ UNCHANGED outerVars

----------------------------------------------------------------------------
Next ==
  \/ PostRun
  \/ PostRunBadRequest
  \/ EnsureRunsDir
  \/ EnsureRunDir
  \/ PersistGraph
  \/ PersistInitialState
  \/ SeedMarkRunning
  \/ SeedUpdateOutput
  \/ SeedMarkCompleted
  \/ SeedPersistNodeIO
  \/ DivergeMarkRunning
  \/ GenerateAttempt
  \/ GenerateGiveUp
  \/ DivergeUpdateOutput
  \/ DivergeMarkCompleted
  \/ DivergePersistNodeIO
  \/ CatchUpdateNode
  \/ CatchMarkFailed
  \/ CatchPersistNodeIO
  \/ CatchPersistRunState
  \/ PackageMarkRunning
  \/ PackageUpdateOutput
  \/ PackageMarkCompleted
  \/ PackagePersistNodeIO
  \/ PersistBrief
  \/ PersistCompleted
  \/ PersistUsage
  \/ RouteCatch

Spec == Init /\ [][Next]_vars

----------------------------------------------------------------------------
(* The request texts: POST /run with every goal / audience / constraints   *)
(* text (absent, empty, white space, padded), followed through the Seed    *)
(* stage of the run it starts.                                             *)

TextBodies ==
  [goal : Opt(Str), audience : Opt(Str), constraints : Opt(Str),
   n : {<<>>}, k : {<<>>}]

InitSeed ==
  /\ body \in TextBodies
  /\ InitRun
  /\ InitServer

NextSeed ==
  \/ PostRun
  \/ PostRunBadRequest
  \/ EnsureRunsDir
  \/ EnsureRunDir
  \/ PersistGraph
  \/ PersistInitialState
  \/ SeedMarkRunning
  \/ SeedUpdateOutput
  \/ SeedMarkCompleted
  \/ SeedPersistNodeIO

SpecSeed == InitSeed /\ [][NextSeed]_vars

----------------------------------------------------------------------------
(* The clamping of n and k: runPipeline as POST /run calls it, or called   *)
(* directly (it is exported) with any integer n and k, followed up to the  *)
(* call of generateIdeas.                                                  *)

DirectSeeds ==
  [goal : {ValidText}, audience : {ValidText}, constraints : {ValidText},
   n : Opt((0 - MaxBelowZero)..MaxSeedN), k : Opt((0 - MaxBelowZero)..MaxSeedK)]

(* runPipeline(config, seed, emitter) called by other code than the route *)
CallRunPipeline ==
  /\ pc = "idle"
  /\ seed' \in DirectSeeds
  /\ runId' = <<createRunId(now)>>
  /\ pc' = "ensureRunsDir"
  /\ UNCHANGED <<state, stateJson, files, events, calls, idx, lastError,
                 generatedIdeas, ideas, message, rejection, ioFailed, httpStatus>>
  /\ UNCHANGED <<body, now, runs, hubVars, disk, response>>

NextClamp ==
  \/ CallRunPipeline
  \/ PostRun
  \/ PostRunBadRequest
  \/ EnsureRunsDir
  \/ EnsureRunDir
  \/ PersistGraph
  \/ PersistInitialState
  \/ SeedMarkRunning
  \/ SeedUpdateOutput
  \/ SeedMarkCompleted
  \/ SeedPersistNodeIO
  \/ DivergeMarkRunning
  \/ GenerateAttempt
  \/ GenerateGiveUp
  \/ DivergeUpdateOutput
  \/ DivergeMarkCompleted

SpecClamp == Init /\ [][NextClamp]_vars

----------------------------------------------------------------------------
(* RunEventHub (server/src/events/runEvents.ts) *)

(* `data: ${JSON.stringify(event)}\n\n`; every RunEvent carries its runId *)
payload(id, event) == <<"data: ", [runId |-> id, event |-> event], "\n\n">>

(* Mutant: one list of subscribers for all runs *)
Listeners_ofAnyRun(id) == [s \in 1..Len(subscriptions) |-> s]

(* this.subscribers.get(id), in insertion order *)
Listeners(id) == IF id \in DOMAIN subscribers THEN subscribers[id] ELSE <<>>

Logged(id) == IF id \in DOMAIN log THEN log[id] ELSE <<>>

(* unsubscribe: Set.delete removes the object `subscription` itself *)
unsubscribe(subs, id, subscription) ==
  IF id \notin DOMAIN subs THEN subs
  ELSE LET rest == SelectSeq(subs[id], LAMBDA x : x # subscription)
       IN  IF rest = <<>> THEN Remove(subs, id) ELSE Put(subs, id, rest)

(* the object literal `{ res }` of line 65: a new object, which is none of *)
(* the Subscription objects subscribe has put into a set                   *)
FreshObject == Len(subscriptions) + 1

RECURSIVE afterThrows(_, _, _)
afterThrows(subs, id, n) ==
  IF n = 0 THEN subs ELSE afterThrows(unsubscribe(subs, id, FreshObject), id, n - 1)

(* Mutant: the first throw of res.write ends the loop *)
Attempted_untilFirstThrow(listeners, throws) ==
  {listeners[i] : i \in {j \in 1..Len(listeners) :
                           \A h \in 1..(j - 1) : listeners[h] \notin throws}}

(* the listeners the loop of broadcast writes to: each throw is caught *)
Attempted(listeners, throws) == Range(listeners)

(* broadcast(id, event); `throws`: the listeners whose res.write throws *)
broadcast(id, event, throws) ==
  LET written == Attempted(Listeners(id), throws) IN
  /\ log' = Put(log, id, Append(Logged(id), event))
  /\ subscriptions' =
       [s \in DOMAIN subscriptions |->
          IF s \notin written THEN subscriptions[s]
          ELSE IF s \in throws
            THEN [subscriptions[s] EXCEPT !.threwInBroadcast = TRUE]
            ELSE [subscriptions[s] EXCEPT !.received = Append(@, payload(id, event))]]
  /\ subscribers' = afterThrows(subscribers, id, Cardinality(written \cap throws))

IsTerminalEvent(event) ==
  event.type = "run-status" /\ event.status \in {"completed", "failed"}

(* emitter.emit('event', event) on emitter object e: the listener of create *)
emit(e, event, throws) ==
  IF emitterObjs[e].listening
    THEN /\ broadcast(emitterObjs[e].runId, event, throws)
         /\ timers' = IF IsTerminalEvent(event)
                        THEN Append(timers, emitterObjs[e].runId)
                        ELSE timers
    ELSE /\ throws = {}
         /\ UNCHANGED <<log, subscriptions, subscribers, timers>>

(* the sets of listeners whose write may throw during one emit *)
ThrowSets(e) ==
  IF emitterObjs[e].listening
    THEN SUBSET Range(Listeners(emitterObjs[e].runId))
    ELSE {{}}

runVars == <<pc, seed, state, stateJson, files, events, calls, idx, lastError,
             generatedIdeas, ideas, message, rejection, httpStatus, ioFailed, runId,
             response>>

(* GET /runs/:id/events for a run the hub has an emitter for: subscribe *)
(* Mutant: a new subscriber is first sent the events published so far *)
Subscribe_replays ==
  /\ Len(subscriptions) < MaxSubs
  /\ \E id \in DOMAIN emitters :
       /\ subscriptions' =
            Append(subscriptions,
                   [runId |-> id, heartbeat |-> TRUE, conn |-> "open",
                    received |-> [j \in 1..Len(Logged(id)) |-> payload(id, Logged(id)[j])],
                    threwInBroadcast |-> FALSE,
                    threwInHeartbeat |-> FALSE, since |-> Len(Logged(id))])
       /\ subscribers' = Put(subscribers, id,
                             Append(Listeners(id), Len(subscriptions) + 1))
  /\ UNCHANGED <<body, runVars, now, runs, emitterObjs, emitters, timers, log, disk>>

Subscribe ==
  /\ Len(subscriptions) < MaxSubs
  /\ \E id \in DOMAIN emitters :
       /\ subscriptions' =
            Append(subscriptions,
                   [runId |-> id, heartbeat |-> TRUE, conn |-> "open",
                    received |-> <<>>, threwInBroadcast |-> FALSE,
                    threwInHeartbeat |-> FALSE, since |-> Len(Logged(id))])
       /\ subscribers' = Put(subscribers, id,
                             Append(Listeners(id), Len(subscriptions) + 1))
  /\ UNCHANGED <<body, runVars, now, runs, emitterObjs, emitters, timers, log, disk>>

(* GET /runs/:id/events for a run the hub has no emitter for: 404 *)
SubscribeNotFound ==
  /\ \E id \in RequestedIds :
       /\ id \notin DOMAIN emitters
       /\ response' = Answer("/runs/:id/events", <<id>>, 404, E_NO_CHANNEL, {})
  /\ UNCHANGED <<body, now, runs, hubVars, disk>>
  /\ UNCHANGED <<pc, seed, state, stateJson, files, events, calls, idx, lastError,
                 generatedIdeas, ideas, message, rejection, httpStatus, ioFailed, runId>>

(* the setInterval callback of a subscription: the write succeeds or throws *)
HeartbeatFires ==
  /\ \E s \in DOMAIN subscriptions :
       /\ subscriptions[s].heartbeat
       /\ \/ UNCHANGED <<subscriptions, subscribers>>
          \/ /\ subscriptions' = [subscriptions EXCEPT ![s].heartbeat = FALSE,
                                                       ![s].threwInHeartbeat = TRUE]
             /\ subscribers' = unsubscribe(subscribers, subscriptions[s].runId, s)
  /\ UNCHANGED <<body, runVars, now, runs, emitterObjs, emitters, timers, log, disk>>

(* Mutant: the close handler does not clear the interval *)
Close_keepsTimer ==
  /\ \E s \in DOMAIN subscriptions :
       /\ subscriptions[s].conn = "open"
       /\ subscriptions' = [subscriptions EXCEPT ![s].conn = "closed"]
       /\ subscribers' = unsubscribe(subscribers, subscriptions[s].runId, s)
  /\ UNCHANGED <<body, runVars, now, runs, emitterObjs, emitters, timers, log, disk>>

(* the 'close' event of a subscriber's response: the client went away *)
Close ==
  /\ \E s \in DOMAIN subscriptions :
       /\ subscriptions[s].conn = "open"
       /\ subscriptions' = [subscriptions EXCEPT ![s].heartbeat = FALSE,
                                                    ![s].conn = "closed"]
       /\ subscribers' = unsubscribe(subscribers, subscriptions[s].runId, s)
  /\ UNCHANGED <<body, runVars, now, runs, emitterObjs, emitters, timers, log, disk>>

(* the setTimeout callback of scheduleCleanup *)
CleanupFires ==
  /\ \E i \in DOMAIN timers :
       /\ timers' = SubSeq(timers, 1, i - 1) \o SubSeq(timers, i + 1, Len(timers))
       /\ IF timers[i] \in DOMAIN emitters
            THEN /\ emitterObjs' = [emitterObjs EXCEPT ![emitters[timers[i]]].listening = FALSE]
                 /\ emitters' = Remove(emitters, timers[i])
            ELSE UNCHANGED <<emitterObjs, emitters>>
  /\ UNCHANGED <<body, runVars, now, runs, subscriptions, subscribers, log, disk>>

----------------------------------------------------------------------------
(* The server with several runs: every POST /run request is one entry of   *)
(* `runs`; an accepted one carries its run through the awaits of           *)
(* runPipeline before the first emit, then through the events the run      *)
(* emits, of which the hub sees the type and status only.                  *)

NoBody == [goal |-> <<>>, audience |-> <<>>, constraints |-> <<>>, n |-> <<>>, k |-> <<>>]

StartBodies ==
  [goal : {<<>>, <<ValidText>>}, audience : {<<ValidText>>},
   constraints : {<<ValidText>>}, n : {<<>>}, k : {<<>>}]

InitMany ==
  /\ body = NoBody
  /\ InitRun
  /\ InitServer

(* the node events of a run, in the order runPipeline emits them *)
NodeEvents ==
  <<NodeStatusEvent("seed", "running", Undefined),
    NodeStatusEvent("seed", "completed", Undefined),
    NodeIOEvent("seed"),
    NodeStatusEvent("divergeGenerate", "running", Undefined),
    NodeStatusEvent("divergeGenerate", "completed", Undefined),
    NodeIOEvent("divergeGenerate"),
    NodeStatusEvent("packageOutput", "running", Undefined),
    NodeStatusEvent("packageOutput", "completed", Undefined),
    NodeIOEvent("packageOutput")>>

(* POST /run, accepted *)
ServePostRun ==
  /\ Len(runs) < MaxRequests
  /\ \E b \in StartBodies, t \in now..MaxClock :
       /\ ~normalizeSeedThrows(b)
       /\ body' = b
       /\ now' = t
       /\ create(createRunId(t))
       /\ runs' = Append(runs, [status |-> 202, runId |-> <<createRunId(t)>>,
                                emitter |-> Len(emitterObjs) + 1,
                                pc |-> "ensureRunsDir", createdAt |-> <<>>, sent |-> 0])
  /\ UNCHANGED <<runVars, subscriptions, subscribers, timers, log, disk>>

(* Mutant: the run ID and the channel are created before the seed is checked *)
ServePostRunBadRequest_afterCreate ==
  /\ Len(runs) < MaxRequests
  /\ \E b \in StartBodies :
       /\ normalizeSeedThrows(b)
       /\ body' = b
       /\ create(createRunId(now))
       /\ runs' = Append(runs, [status |-> 400, runId |-> <<>>, emitter |-> 0,
                                pc |-> "badRequest", createdAt |-> <<>>, sent |-> 0])
  /\ UNCHANGED <<runVars, now, subscriptions, subscribers, timers, log, disk>>

(* POST /run, normalizeSeed throws: 400 *)
ServePostRunBadRequest ==
  /\ Len(runs) < MaxRequests
  /\ \E b \in StartBodies :
       /\ normalizeSeedThrows(b)
       /\ body' = b
       /\ runs' = Append(runs, [status |-> 400, runId |-> <<>>, emitter |-> 0,
                                pc |-> "badRequest", createdAt |-> <<>>, sent |-> 0])
  /\ UNCHANGED <<runVars, now, hubVars, disk>>

(* an awaited file-system call of run i throws: runPipeline rejects *)
RunRejects(i) ==
  /\ runs' = [runs EXCEPT ![i].pc = "rejected"]
  /\ UNCHANGED <<now, hubVars, disk>>

RunEnsureRunsDir ==
  /\ \E i \in DOMAIN runs :
       /\ runs[i].pc = "ensureRunsDir"
       /\ \/ /\ runs' = [runs EXCEPT ![i].pc = "ensureRunDir"]
             /\ UNCHANGED <<now, hubVars, disk>>
          \/ RunRejects(i)
  /\ UNCHANGED <<body, runVars>>

(* mkdir(runDir, { recursive: true }): an existing directory is kept *)
RunEnsureRunDir ==
  /\ \E i \in DOMAIN runs :
       /\ runs[i].pc = "ensureRunDir"
       /\ \/ /\ runs' = [runs EXCEPT ![i].pc = "persistGraph"]
             /\ disk' = IF runs[i].runId[1] \in DOMAIN disk
                          THEN disk ELSE Put(disk, runs[i].runId[1], <<>>)
             /\ UNCHANGED <<now, hubVars>>
          \/ RunRejects(i)
  /\ UNCHANGED <<body, runVars>>

RunPersistGraph ==
  /\ \E i \in DOMAIN runs :
       /\ runs[i].pc = "persistGraph"
       /\ \/ /\ runs' = [runs EXCEPT ![i].pc = "persistInitialState"]
             /\ UNCHANGED <<now, hubVars, disk>>
          \/ RunRejects(i)
  /\ UNCHANGED <<body, runVars>>

(* what persistRunState writes for run i *)
StateFile(id, createdAt, status) ==
  <<[id |-> id, createdAt |-> createdAt, status |-> status]>>

(* lines 205-235: createdAt = new Date().toISOString(), persist, emit running *)
RunPersistInitialState ==
  /\ \E i \in DOMAIN runs, t \in now..MaxClock :
       /\ runs[i].pc = "persistInitialState"
       /\ now' = t
       /\ \/ /\ runs' = [runs EXCEPT ![i].pc = "running",
                                     ![i].createdAt = <<toISOString(t)>>,
                                     ![i].sent = 1]
             /\ disk' = Put(disk, runs[i].runId[1],
                            StateFile(runs[i].runId[1], toISOString(t), "running"))
             /\ \E throws \in ThrowSets(runs[i].emitter) :
                  emit(runs[i].emitter, RunStatusEvent("running", Undefined), throws)
             /\ UNCHANGED <<emitterObjs, emitters>>
          \/ /\ runs' = [runs EXCEPT ![i].pc = "rejected",
                                     ![i].createdAt = <<toISOString(t)>>]
             /\ UNCHANGED <<hubVars, disk>>
  /\ UNCHANGED <<body, runVars>>

(* a node-status or node-io event of a running run *)
RunEmitNode ==
  /\ \E i \in DOMAIN runs :
       /\ runs[i].pc = "running"
       /\ runs[i].sent <= MaxNodeEvents
       /\ runs[i].sent <= Len(NodeEvents)
       /\ runs' = [runs EXCEPT ![i].sent = @ + 1]
       /\ \E throws \in ThrowSets(runs[i].emitter) :
            emit(runs[i].emitter, NodeEvents[runs[i].sent], throws)
  /\ UNCHANGED <<body, runVars, now, emitterObjs, emitters, disk>>

(* lines 369-375: the Generate stage failed, emit run-status failed *)
RunFail ==
  /\ \E i \in DOMAIN runs :
       /\ runs[i].pc = "running"
       /\ runs' = [runs EXCEPT ![i].pc = "persistFailed", ![i].sent = @ + 1]
       /\ \E throws \in ThrowSets(runs[i].emitter) :
            emit(runs[i].emitter, RunStatusEvent("failed", E_UPSTREAM), throws)
  /\ UNCHANGED <<body, runVars, now, emitterObjs, emitters, disk>>

(* lines 376-379: persist the failed state, rethrow *)
RunPersistFailed ==
  /\ \E i \in DOMAIN runs :
       /\ runs[i].pc = "persistFailed"
       /\ \/ /\ runs' = [runs EXCEPT ![i].pc = "rejected"]
             /\ disk' = Put(disk, runs[i].runId[1],
                            StateFile(runs[i].runId[1], runs[i].createdAt[1], "failed"))
             /\ UNCHANGED <<now, hubVars>>
          \/ RunRejects(i)
  /\ UNCHANGED <<body, runVars>>

(* lines 420-422: persist the completed state *)
RunPersistCompleted ==
  /\ \E i \in DOMAIN runs :
       /\ runs[i].pc = "running"
       /\ \/ /\ runs' = [runs EXCEPT ![i].pc = "persistUsage"]
             /\ disk' = Put(disk, runs[i].runId[1],
                            StateFile(runs[i].runId[1], runs[i].createdAt[1], "completed"))
             /\ UNCHANGED <<now, hubVars>>
          \/ RunRejects(i)
  /\ UNCHANGED <<body, runVars>>

(* lines 423-424: persist the usage, emit run-status completed *)
RunPersistUsage ==
  /\ \E i \in DOMAIN runs :
       /\ runs[i].pc = "persistUsage"
       /\ \/ /\ runs' = [runs EXCEPT ![i].pc = "resolved", ![i].sent = @ + 1]
             /\ \E throws \in ThrowSets(runs[i].emitter) :
                  emit(runs[i].emitter, RunStatusEvent("completed", Undefined), throws)
             /\ UNCHANGED <<now, emitterObjs, emitters, disk>>
          \/ RunRejects(i)
  /\ UNCHANGED <<body, runVars>>

(* Several runs, no subscriber *)
NextStart ==
  \/ ServePostRun
  \/ ServePostRunBadRequest
  \/ RunEnsureRunsDir
  \/ RunEnsureRunDir
  \/ RunPersistGraph
  \/ RunPersistInitialState
  \/ RunEmitNode
  \/ RunFail
  \/ RunPersistFailed
  \/ RunPersistCompleted
  \/ RunPersistUsage
  \/ CleanupFires

SpecStart == InitMany /\ [][NextStart]_vars

(* One run and its subscribers: the first POST /run request is accepted,  *)
(* later ones are rejected; the run it starts and the event streams        *)
(* opened on it.                                                           *)
FirstPostRun == runs = <<>> /\ ServePostRun

NextHub ==
  \/ FirstPostRun
  \/ ServePostRunBadRequest
  \/ RunEnsureRunsDir
  \/ RunEnsureRunDir
  \/ RunPersistGraph
  \/ RunPersistInitialState
  \/ RunEmitNode
  \/ RunFail
  \/ RunPersistFailed
  \/ RunPersistCompleted
  \/ RunPersistUsage
  \/ Subscribe
  \/ HeartbeatFires
  \/ Close
  \/ CleanupFires

SpecHub == InitMany /\ [][NextHub]_vars

(* Several runs and their subscribers: every request is accepted, every   *)
(* subscriber stays connected, and each run is followed up to its          *)
(* run-status failed event and the cleanup timer that event starts.        *)
NextPair ==
  \/ ServePostRun
  \/ RunEnsureRunsDir
  \/ RunEnsureRunDir
  \/ RunPersistGraph
  \/ RunPersistInitialState
  \/ RunEmitNode
  \/ RunFail
  \/ Subscribe
  \/ CleanupFires

SpecPair == InitMany /\ [][NextPair]_vars

----------------------------------------------------------------------------
(* GET /runs: the state.json of every run directory that has one ...       *)
listRuns == {disk[d][1] : d \in {x \in DOMAIN disk : disk[x] # <<>>}}

(* ... sorted by (a, b) => getTime(b.createdAt) - getTime(a.createdAt):    *)
(* a is listed before b when it was created later                          *)
ListedBefore(a, b) == getTime(a.createdAt) > getTime(b.createdAt)


----------------------------------------------------------------------------
(* The readers of the store, and fs.writeFile as the two steps a           *)
(* concurrent reader can tell apart.                                       *)

(* state.json between the open(path, 'w') of fs.writeFile, which truncates *)
(* it, and the end of the write: a strict prefix of the JSON text, which   *)
(* JSON.parse rejects                                                      *)
Truncated == [id |-> <<>>, createdAt |-> <<>>, status |-> "truncated"]

(* the content of a path after fs.writeFile opened it, before the data *)
AfterOpen(content) == <<Truncated>>

(* writeJson, lines 67-69: fs.writeFile has opened state.json of run i;    *)
(* the write itself is the step of the run that follows                    *)
WriteFileOpens ==
  /\ \E i \in DOMAIN runs :
       /\ runs[i].pc \in {"persistInitialState", "persistFailed"}
       /\ runs[i].runId[1] \in DOMAIN disk
       /\ disk[runs[i].runId[1]] # <<Truncated>>
       /\ disk' = Put(disk, runs[i].runId[1], AfterOpen(disk[runs[i].runId[1]]))
  /\ UNCHANGED <<body, now, runs, hubVars>>
  /\ UNCHANGED <<pc, seed, state, stateJson, files, events, calls, idx, lastError,
                 generatedIdeas, ideas, message, rejection, httpStatus, ioFailed,
                 runId, response>>

(* readRunState, lines 203-207: ENOENT without the file, a SyntaxError     *)
(* from JSON.parse on a truncated file, the state otherwise                *)
readRunState(id) ==
  IF id \notin DOMAIN disk \/ disk[id] = <<>> THEN [ok |-> FALSE, code |-> "ENOENT", state |-> Truncated]
  ELSE IF disk[id] = <<Truncated>> THEN [ok |-> FALSE, code |-> "", state |-> Truncated]
  ELSE [ok |-> TRUE, code |-> "", state |-> disk[id][1]]

(* Mutant: a directory without state.json fails the whole listing *)
Skipped_none(r) == FALSE

(* GET /runs, lines 320-323: catch (err) { if ENOENT return null } *)
Skipped(r) == ~r.ok /\ r.code = "ENOENT"

(* GET /runs, lines 311-333.  readdir may throw (so it does when runsDir   *)
(* does not exist yet) and so may the read of a file that exists: 500.     *)
GetRuns ==
  /\ LET read == [d \in DOMAIN disk |-> readRunState(d)]
         kept == {d \in DOMAIN disk : ~Skipped(read[d])}
     IN  \/ response' =
              IF \E d \in kept : ~read[d].ok
                THEN Answer("/runs", <<>>, 500, E_JSON, {})
                ELSE Answer("/runs", <<>>, 200, "", {read[d].state : d \in kept})
         \/ response' = Answer("/runs", <<>>, 500, E_IO, {})
  /\ UNCHANGED <<body, now, runs, hubVars, disk>>
  /\ UNCHANGED <<pc, seed, state, stateJson, files, events, calls, idx, lastError,
                 generatedIdeas, ideas, message, rejection, httpStatus, ioFailed, runId>>

(* GET /runs/:id, lines 335-363 *)
GetRun ==
  /\ \E id \in RequestedIds :
       LET r == readRunState(id) IN
         \/ response' =
              IF r.ok THEN Answer("/runs/:id", <<id>>, 200, "", {r.state})
              ELSE IF r.code = "ENOENT" THEN Answer("/runs/:id", <<id>>, 404, E_NOT_FOUND, {})
              ELSE Answer("/runs/:id", <<id>>, 500, E_JSON, {})
         \/ /\ r.code # "ENOENT"
            /\ response' = Answer("/runs/:id", <<id>>, 500, E_IO, {})
  /\ UNCHANGED <<body, now, runs, hubVars, disk>>
  /\ UNCHANGED <<pc, seed, state, stateJson, files, events, calls, idx, lastError,
                 generatedIdeas, ideas, message, rejection, httpStatus, ioFailed, runId>>

(* Several runs and the GET requests that arrive while they execute *)
NextStore ==
  \/ ServePostRun
  \/ ServePostRunBadRequest
  \/ RunEnsureRunsDir
  \/ RunEnsureRunDir
  \/ RunPersistGraph
  \/ WriteFileOpens
  \/ RunPersistInitialState
  \/ RunFail
  \/ RunPersistFailed
  \/ RunPersistCompleted
  \/ RunPersistUsage
  \/ GetRuns
  \/ GetRun
  \/ SubscribeNotFound

SpecStore == InitMany /\ [][NextStore]_vars

----------------------------------------------------------------------------
(* Vocabulary of the properties *)

Terminal == {"completed", "failed"}

(* runPipeline's promise is settled: the run takes no further step *)
Settled == pc \in {"resolved", "rejected", "logged"}

AllCompleted(s) == \A id \in NodeKey : s.nodes[id].status = "completed"
AnyFailed(s) == \E id \in NodeKey : s.nodes[id].status = "failed"

(* The statuses of the node-status events published for a stage, in order *)
NodeStatuses(id) ==
  LET sel == SelectSeq(events, LAMBDA e : e.type = "node-status" /\ e.nodeId = id)
  IN [i \in 1..Len(sel) |-> sel[i].status]

IsPrefix(s, t) == Len(s) <= Len(t) /\ \A i \in 1..Len(s) : s[i] = t[i]

EventsOfNode(id) == {i \in 1..Len(events) : events[i].nodeId = id}
FailedEvents == {i \in 1..Len(events) : events[i].status = "failed"}

(* Kinds of upstream answer, in the terms of the adapter contract:         *)
(* GenerationError (the service errors), InvalidOutputError (the response  *)
(* has no text or cannot be parsed into a non-empty list of ideas), valid. *)
IsGenerationError(resp) == resp.kind = "error"
IsValidOutput(resp) == resp.kind = "json" /\ resp.n >= 1
IsInvalidOutput(resp) == ~IsGenerationError(resp) /\ ~IsValidOutput(resp)

(* generateIdeas has used up its attempts without a success *)
AllAttemptsFailed ==
  /\ Len(calls) = 2
  /\ \A i \in 1..2 : ~IsValidOutput(calls[i])
  /\ pc # "generateIdeas"

----------------------------------------------------------------------------
(* C1: in every run each stage's status only moves pending -> running ->   *)
(* completed or pending -> running -> failed; a stage that has reached     *)
(* completed or failed never changes status again, whatever the steps      *)
(* (adapter success, adapter failure, failing persistence write).          *)
LegalStatusStep(a, b) ==
  \/ a = b
  \/ a = "pending" /\ b = "running"
  \/ a = "running" /\ b \in Terminal

C1_StatusMonotonic ==
  [][state # <<>> =>
       \A id \in NodeKey :
         LegalStatusStep(state[1].nodes[id].status, state'[1].nodes[id].status)]_vars

----------------------------------------------------------------------------
(* C2, as claimed: in every snapshot written to state.json the run status  *)
(* is completed iff all three stages are completed, failed iff at least    *)
(* one stage is failed, and running otherwise.                             *)
C2_SnapshotStatusIff ==
  stateJson # <<>> =>
    LET s == stateJson[1] IN
      /\ s.status = "completed" <=> AllCompleted(s)
      /\ s.status = "failed" <=> AnyFailed(s)
      /\ s.status = "running" <=> (~AllCompleted(s) /\ ~AnyFailed(s))

(* C2, amended: in every snapshot written to state.json, run status        *)
(* completed implies all three stages completed and run status failed      *)
(* implies some stage failed; the converses hold in the last snapshot of a *)
(* settled run none of whose writes failed, not in the snapshots that      *)
(* markNodeStatus writes before the run status is set.                     *)
C2_SnapshotStatusImplies ==
  stateJson # <<>> =>
    LET s == stateJson[1] IN
      /\ s.status \in {"running", "completed", "failed"}
      /\ s.status = "completed" => AllCompleted(s)
      /\ s.status = "failed" => AnyFailed(s)
      /\ (Settled /\ ~ioFailed) =>
           /\ AllCompleted(s) => s.status = "completed"
           /\ AnyFailed(s) => s.status = "failed"
           /\ s.status # "running"

C2_Witness ==
  /\ stateJson # <<>>
  /\ stateJson[1].status = "completed"
  /\ AllCompleted(stateJson[1])

----------------------------------------------------------------------------
(* C3: the node-status events published for a stage are one 'running'      *)
(* event followed by one terminal event: never both terminal events, never *)
(* the same status twice, never a terminal event without 'running' first.  *)
C3_StageEventsRunningThenOneTerminal ==
  \A id \in NodeKey :
    \/ IsPrefix(NodeStatuses(id), <<"running", "completed">>)
    \/ IsPrefix(NodeStatuses(id), <<"running", "failed">>)

----------------------------------------------------------------------------
(* C4: if generateIdeas fails on both attempts, packageOutput stays        *)
(* pending, no packageOutput event is published and no brief.md is         *)
(* written, and the run ends with run status failed and divergeGenerate    *)
(* failed.                                                                 *)
C4_TwoFailuresFailRunAndSkipPackage ==
  AllAttemptsFailed =>
    /\ state[1].nodes["packageOutput"].status = "pending"
    /\ EventsOfNode("packageOutput") = {}
    /\ "brief.md" \notin files
    /\ Settled =>
         /\ state[1].status = "failed"
         /\ state[1].nodes["divergeGenerate"].status = "failed"

----------------------------------------------------------------------------
----------------------------------------------------------------------------
(* C6: in one run the upstream generation service is called at most twice, *)
(* and never again after an attempt has succeeded.                         *)
C6_AtMostTwoCalls ==
  /\ Len(calls) <= 2
  /\ \A i \in 1..Len(calls) : IsValidOutput(calls[i]) => i = Len(calls)

C6_Witness ==
  /\ Len(calls) = 2
  /\ Settled

----------------------------------------------------------------------------
(* C7: first attempt invalid output, second attempt valid ideas.           *)
RetrySucceeded ==
  /\ Len(calls) = 2
  /\ IsInvalidOutput(calls[1])
  /\ IsValidOutput(calls[2])

NoVisibleError ==
  /\ state[1].error = Undefined
  /\ state[1].nodes["divergeGenerate"].error = Undefined
  /\ state[1].nodes["divergeGenerate"].status # "failed"
  /\ FailedEvents = {}
  /\ Settled =>
       /\ pc = "resolved"
       /\ state[1].nodes["divergeGenerate"].status = "completed"
       /\ state[1].status = "completed"
       /\ stateJson = state

----------------------------------------------------------------------------
(* C8: an exception raised during any stage (Seed, Generate or Package,    *)
(* a failing persistence write included) is caught: once the run has       *)
(* ended, that stage is failed with the exception message as its error,    *)
(* the persisted RunState is failed and run-status=failed was published.   *)
StageStarted == state # <<>> /\ state[1].nodes["seed"].status # "pending"

C8_StageExceptionFailsRun ==
  (pc \in {"rejected", "logged"} /\ StageStarted) =>
    /\ \E id \in NodeKey :
         /\ state[1].nodes[id].status = "failed"
         /\ state[1].nodes[id].error # Undefined
    /\ stateJson # <<>>
    /\ stateJson[1].status = "failed"
    /\ \E i \in 1..Len(events) :
         events[i].type = "run-status" /\ events[i].status = "failed"

----------------------------------------------------------------------------
(* C9: every accepted run ends with a terminal run status (completed or    *)
(* failed) in its persisted RunState, also when a persistence write fails  *)
(* along the way: once runPipeline has settled, state.json is terminal.    *)
C9_SettledRunIsTerminalOnDisk ==
  (httpStatus = 202 /\ pc \in {"resolved", "logged"}) =>
    /\ stateJson # <<>>
    /\ stateJson[1].status \in Terminal

----------------------------------------------------------------------------
(* C10, as claimed: when the Generate stage fails, runPipeline records the *)
(* terminal failed RunState and does not reject its promise.               *)
GenerateFailed == state # <<>> /\ state[1].nodes["divergeGenerate"].status = "failed"

C10_GenerateFailureNotThrown ==
  (GenerateFailed /\ Settled) => pc = "resolved"

(* C10, amended: when the Generate stage fails, runPipeline never          *)
(* resolves: it rethrows, so its promise is rejected, with the error       *)
(* recorded in RunState.error whenever the terminal failed RunState was    *)
(* written to state.json; the rejection is then taken by the .catch of     *)
(* POST /run, which logs it.                                               *)
C10_GenerateFailureRethrown ==
  /\ []((GenerateFailed /\ Settled) =>
          /\ pc \in {"rejected", "logged"}
          /\ rejection # Undefined
          /\ stateJson[1].status = "failed" =>
               /\ rejection = stateJson[1].error
               /\ stateJson = state)
  /\ [][pc = "rejected" => pc' = "logged"]_vars

C10_Witness ==
  /\ GenerateFailed
  /\ pc = "logged"
  /\ state[1].status = "failed"
  /\ stateJson = state
----------------------------------------------------------------------------
(* a text field of the body that is absent or empty once trimmed *)
EmptyAfterTrim(text) == text = <<>> \/ trim(text[1]) = <<>>

SeedFields == {"goal", "audience", "constraints"}

(* C11: POST /run rejects every seed whose goal, audience or constraints   *)
(* is empty after trimming (white space only included), and no run ever    *)
(* records an empty sanitized goal, audience or constraints.               *)
C11_EmptySeedRejected ==
  /\ (\E f \in SeedFields : EmptyAfterTrim(body[f])) => pc \in {"idle", "badRequest"}
  /\ \A s \in {state, stateJson} :
       (s # <<>> /\ s[1].nodes["seed"].output # <<>>)
         => \A f \in SeedFields : s[1].nodes["seed"].output[1].details[f] # <<>>

----------------------------------------------------------------------------
(* the Seed stage parameters recorded in a state *)
SeedParametersIn(s) == s[1].nodes["seed"].output[1]
SeedRecorded(s) == s # <<>> /\ s[1].nodes["seed"].output # <<>>

InRange(s) ==
  /\ SeedParametersIn(s).requestedIdeas \in 1..MAX_DIVERGE_IDEAS
  /\ SeedParametersIn(s).topK \in 1..SeedParametersIn(s).requestedIdeas

(* C13: for every integer n given to runPipeline (absent, zero, negative,  *)
(* in range, above the ceiling) the idea count passed to generateIdeas and *)
(* recorded in the Seed stage parameters lies in 1..6 and the top-K        *)
(* recorded with it lies in 1..that count.                                 *)
C13_ClampedForEveryN ==
  /\ pc = "generateIdeas" => ideaCount \in 1..MAX_DIVERGE_IDEAS
  /\ \A s \in {state, stateJson} : SeedRecorded(s) => InRange(s)

PositiveOrAbsent(o) == o = <<>> \/ o[1] >= 1

(* C13 (amended): for every n that is absent or a positive integer, the    *)
(* only values POST /run lets through, the idea count passed to            *)
(* generateIdeas and recorded is min(n or DEFAULT_N, 6), in 1..6, and the  *)
(* top-K lies in 1..that count; for n <= 0 runPipeline applies no lower    *)
(* clamp: it passes and records n itself, with top-K 1.                    *)
C13_ClampedForAcceptedN ==
  /\ httpStatus = 202 => PositiveOrAbsent(seed.n) /\ PositiveOrAbsent(seed.k)
  /\ (pc = "generateIdeas" /\ PositiveOrAbsent(seed.n))
       => ideaCount \in 1..MAX_DIVERGE_IDEAS
  /\ \A s \in {state, stateJson} :
       SeedRecorded(s) =>
         IF PositiveOrAbsent(seed.n)
           THEN /\ InRange(s)
                /\ SeedParametersIn(s).requestedIdeas
                     = Min(OrElse(seed.n, defaultN), MAX_DIVERGE_IDEAS)
           ELSE /\ SeedParametersIn(s).requestedIdeas = seed.n[1]
                /\ SeedParametersIn(s).topK = 1

(* a request asking for more ideas than the ceiling has reached the call   *)
(* of generateIdeas                                                        *)
C13_Witness ==
  /\ httpStatus = 202
  /\ seed.n # <<>> /\ seed.n[1] > MAX_DIVERGE_IDEAS
  /\ pc = "generateIdeas"
  /\ SeedRecorded(stateJson)

----------------------------------------------------------------------------
(* the outputs of the Generate and Package stages recorded in a state *)
GenerateOutputIn(s) == s[1].nodes["divergeGenerate"].output[1]
PackageOutputIn(s) == s[1].nodes["packageOutput"].output[1]

(* C14: in every completed run Package selects exactly                      *)
(* k = min(requestedTopK, number of ideas of the Generate output) >= 1     *)
(* ideas, the first k in the order the adapter returned them, and records  *)
(* selectedCount = k and totalGenerated = the number of generated ideas.   *)
C14_PackageSelectsFirstK ==
  \A s \in {state, stateJson} :
    (s # <<>> /\ s[1].status = "completed") =>
      LET generated == GenerateOutputIn(s).ideas
          chosen == Min(requestedTopK, Len(generated))
      IN  /\ chosen >= 1
          /\ IsPrefix(generated, IdeasOf(calls[Len(calls)].n))
          /\ PackageOutputIn(s).selected = SubSeq(generated, 1, chosen)
          /\ PackageOutputIn(s).selectedCount = chosen
          /\ PackageOutputIn(s).totalGenerated = Len(generated)

(* a completed run that selected at least two ideas, fewer than it        *)
(* generated                                                               *)
C14_Witness ==
  /\ stateJson # <<>> /\ stateJson[1].status = "completed"
  /\ PackageOutputIn(stateJson).selectedCount >= 2
  /\ PackageOutputIn(stateJson).selectedCount < PackageOutputIn(stateJson).totalGenerated
  /\ requestedTopK < Len(generatedIdeas)

----------------------------------------------------------------------------
(* C15: POST /run sends its 202 response before the pipeline makes any     *)
(* call to the generation adapter; the response does not wait for any      *)
(* stage: it is sent in the step that starts the run.                      *)
C15_AcceptedBeforeGeneration ==
  /\ calls # <<>> => httpStatus = 202
  /\ pc \notin {"idle", "badRequest"} => httpStatus = 202

(* the run is accepted and the first call of the adapter is still to come  *)
C15_Witness ==
  /\ httpStatus = 202
  /\ pc = "generateIdeas"
  /\ calls = <<>>

----------------------------------------------------------------------------
(* a step in which the server handles a POST /run whose seed normalizeSeed *)
(* rejects                                                                 *)
RejectsSeed == Len(runs') = Len(runs) + 1 /\ normalizeSeedThrows(body')

(* C12: when POST /run rejects a seed nothing else changes: no run ID is   *)
(* issued, no channel is opened, the hub's emitters and subscribers are    *)
(* unchanged, no run directory or file is written, the other runs are      *)
(* untouched, and the caller gets the error in that same step.             *)
C12_RejectionChangesNothing ==
  [][RejectsSeed =>
       /\ runs'[Len(runs')].status = 400
       /\ runs'[Len(runs')].runId = <<>>
       /\ SubSeq(runs', 1, Len(runs)) = runs
       /\ UNCHANGED <<emitterObjs, emitters, subscriptions, subscribers, timers, disk>>]_vars

(* a request was rejected by a server that holds a channel, a subscriber   *)
(* and a run directory of an earlier run                                   *)
C12_Witness ==
  /\ \E i \in DOMAIN runs : runs[i].status = 400
  /\ DOMAIN emitters # {}
  /\ DOMAIN subscribers # {}
  /\ DOMAIN disk # {}

----------------------------------------------------------------------------
Accepted == {i \in DOMAIN runs : runs[i].status = 202}

(* C16: any two accepted POST /run requests, even within one clock         *)
(* millisecond, get distinct run IDs, so no two runs share a hub channel   *)
(* or a run directory.                                                     *)
C16_DistinctRunIds ==
  \A i, j \in Accepted :
    i # j => /\ runs[i].runId # runs[j].runId
             /\ emitterObjs[runs[i].emitter].runId # emitterObjs[runs[j].emitter].runId

----------------------------------------------------------------------------
(* the UTF-16 code units of the characters of a run ID *)
CodeUnit(c) ==
  IF c = "-" THEN 45 ELSE IF c = "Z" THEN 90 ELSE 48 + DigitValue(c)

(* a < b for two strings *)
SortsBefore(a, b) ==
  \/ \E i \in 1..Min(Len(a), Len(b)) :
       /\ \A h \in 1..(i - 1) : a[h] = b[h]
       /\ CodeUnit(a[i]) < CodeUnit(b[i])
  \/ Len(a) < Len(b) /\ \A h \in 1..Len(a) : a[h] = b[h]

Created == {i \in Accepted : runs[i].createdAt # <<>>}

(* C17: for any two runs A and B, under every interleaving, the ID of A    *)
(* sorts before the ID of B exactly when the createdAt of A is earlier     *)
(* than that of B, so that the runs GET /runs returns, which it orders by  *)
(* createdAt, are ordered by ID as well.                                   *)
C17_IdOrderIsCreationOrder ==
  /\ \A i, j \in Created :
       SortsBefore(runs[i].runId[1], runs[j].runId[1])
         <=> getTime(runs[i].createdAt[1]) < getTime(runs[j].createdAt[1])
  /\ \A a, b \in listRuns : SortsBefore(a.id, b.id) <=> ListedBefore(b, a)

----------------------------------------------------------------------------
(* subscription s is in the fan-out set of its run *)
IsListener(s) == s \in Range(Listeners(subscriptions[s].runId))

(* C18: when res.write throws inside broadcast, that subscriber is removed *)
(* from the fan-out set, so no later event is written to it.               *)
C18_ThrowingSubscriberRemoved ==
  /\ [](\A s \in DOMAIN subscriptions :
          subscriptions[s].threwInBroadcast => ~IsListener(s))
  /\ [][\A s \in DOMAIN subscriptions :
          subscriptions[s].threwInBroadcast
            => subscriptions'[s].received = subscriptions[s].received]_vars

----------------------------------------------------------------------------
(* the payloads due to subscription s: one for every event the hub was     *)
(* given for its run since s subscribed, in order                          *)
Due(s) ==
  LET id == subscriptions[s].runId
      from == subscriptions[s].since
  IN  [j \in 1..(Len(Logged(id)) - from) |-> payload(id, Logged(id)[from + j])]

(* C19: a write that throws for one subscriber during broadcast does not   *)
(* affect the others: every subscriber in the fan-out set whose own writes *)
(* never threw has received that event and every later one, in order (one *)
(* that left has received them up to its leaving), and the step of the run *)
(* that published the event goes on as if nothing had happened.            *)
C19_OthersStillDelivered ==
  /\ [](\A s \in DOMAIN subscriptions :
          ~subscriptions[s].threwInBroadcast
            => IF IsListener(s)
                 THEN subscriptions[s].received = Due(s)
                 ELSE IsPrefix(subscriptions[s].received, Due(s)))
  /\ [][(\E s \in DOMAIN subscriptions :
           subscriptions'[s].threwInBroadcast /\ ~subscriptions[s].threwInBroadcast)
          => \E i \in DOMAIN runs :
               /\ runs'[i].sent = runs[i].sent + 1
               /\ runs'[i].pc \in {"running", "persistFailed", "resolved"}]_vars

(* two subscribers of one run since before its first event: every write to *)
(* the first threw, the second received two events                         *)
C19_Witness ==
  \E s, t \in DOMAIN subscriptions :
    /\ s # t
    /\ subscriptions[s].runId = subscriptions[t].runId
    /\ subscriptions[s].since = 0 /\ subscriptions[t].since = 0
    /\ subscriptions[s].threwInBroadcast /\ subscriptions[s].received = <<>>
    /\ ~subscriptions[t].threwInBroadcast
    /\ IsListener(t)
    /\ Len(subscriptions[t].received) >= 2

----------------------------------------------------------------------------
(* a step in which a cleanup timer of run `id` fires *)
CleanupFired(id) ==
  \E i \in DOMAIN timers :
    /\ timers[i] = id
    /\ timers' = SubSeq(timers, 1, i - 1) \o SubSeq(timers, i + 1, Len(timers))

(* C20: once the grace timer of a run fires, the channel is force-closed   *)
(* and its resources are released: the hub holds no emitter for the run,   *)
(* the fan-out set of the run is empty, no keep-alive timer of the run is  *)
(* active and every subscriber stream of the run has been ended.           *)
C20_CleanupReleasesEverything ==
  [][\A id \in Range(timers) :
       CleanupFired(id) =>
         /\ id \notin DOMAIN emitters'
         /\ id \notin DOMAIN subscribers'
         /\ \A s \in DOMAIN subscriptions' :
              subscriptions'[s].runId = id
                => /\ ~subscriptions'[s].heartbeat
                   /\ subscriptions'[s].conn # "open"]_vars

----------------------------------------------------------------------------
(* C25: once state.json records the run as completed or failed, no later   *)
(* step of the run changes the in-memory RunState or the content of        *)
(* state.json.                                                             *)
C25_TerminalStateImmutable ==
  [][(stateJson # <<>> /\ stateJson[1].status \in Terminal)
       => (state' = state /\ stateJson' = stateJson)]_vars

(* a completed run whose token usage was written after the final state.json, *)
(* or a failed run whose rejection the route has logged                      *)
C25_Witness ==
  /\ stateJson # <<>>
  /\ \/ stateJson[1].status = "completed" /\ pc = "resolved"
     \/ stateJson[1].status = "failed" /\ pc = "logged"

----------------------------------------------------------------------------
(* The error of the adapter's final failed attempt *)
FinalAttemptError == attemptBody(calls[Len(calls)]).err

(* A failed run as s records it: the run error, the failed stage's error   *)
(* and the error of the two failed events are all the message msg          *)
FailureRecordedAs(s, msg) ==
  /\ s.error = msg
  /\ s.nodes["divergeGenerate"].status = "failed"
  /\ s.nodes["divergeGenerate"].error = msg
  /\ \E i \in 1..Len(events) : events[i] = NodeStatusEvent("divergeGenerate", "failed", msg)
  /\ \E i \in 1..Len(events) : events[i] = RunStatusEvent("failed", msg)

(* C26, as claimed: in every failed run RunState.error and the failed      *)
(* stage's error are both set and equal to the message of the adapter's    *)
(* final failed attempt, and the stage-status=failed and run-status=failed *)
(* events carry that same message.                                         *)
C26_ErrorIsAdaptersFinalMessage ==
  (state # <<>> /\ state[1].status = "failed")
    => /\ AllAttemptsFailed
       /\ FailureRecordedAs(state[1], FinalAttemptError)

(* C26, amended: in every failed run RunState.error, the failed stage's    *)
(* error and the error of the two failed events are the message of the     *)
(* error that the Generate stage's catch block caught; that is the message *)
(* of the adapter's final failed attempt when both attempts failed, and    *)
(* the message of the storage error when a write inside the stage threw.   *)
(* A state.json that records the run as failed records the same.           *)
C26_ErrorIsCaughtMessage ==
  /\ (state # <<>> /\ state[1].status = "failed")
       => /\ FailureRecordedAs(state[1], message)
          /\ message # Undefined
          /\ message = IF AllAttemptsFailed THEN FinalAttemptError ELSE E_IO
          /\ ~AllAttemptsFailed => ioFailed
  /\ (stateJson # <<>> /\ stateJson[1].status = "failed")
       => FailureRecordedAs(stateJson[1], message)

(* a run that failed because the adapter gave up, recorded in state.json *)
C26_Witness ==
  /\ stateJson # <<>> /\ stateJson[1].status = "failed"
  /\ AllAttemptsFailed
  /\ stateJson[1].error = FinalAttemptError


----------------------------------------------------------------------------
(* The stages in pipeline order, and the position of the stage that a step *)
(* at pc belongs to; 4 after the last stage and once the run has settled.  *)
StageOrder == <<"seed", "divergeGenerate", "packageOutput">>

StageAt(p) ==
  IF p \in {"seed_markRunning", "seed_updateOutput", "seed_markCompleted",
            "seed_persistNodeIO"} THEN 1
  ELSE IF p \in {"diverge_markRunning", "generateIdeas", "diverge_updateOutput",
                 "diverge_markCompleted", "diverge_persistNodeIO",
                 "catch_updateNode", "catch_markFailed", "catch_persistNodeIO",
                 "catch_persistRunState"} THEN 2
  ELSE IF p \in {"package_markRunning", "package_updateOutput",
                 "package_markCompleted", "package_persistNodeIO",
                 "persistBrief"} THEN 3
  ELSE 4

(* Where a step of a failure leads: into or through the catch block, or to *)
(* the rejection of runPipeline's promise                                  *)
FailurePcs ==
  {"catch_updateNode", "catch_markFailed", "catch_persistNodeIO",
   "catch_persistRunState", "rejected"}

ArtifactOf(id) == "node_io/" \o id \o ".json"

(* C27: when a stage fails, every stage that completed earlier is left     *)
(* unchanged by every step of the failure: its status, input, output and   *)
(* timestamps in RunState and in state.json stay what they were just       *)
(* before, and its stage artifact stays on disk.                           *)
C27_EarlierStagesUnchanged ==
  [][/\ (state # <<>> /\ pc' \in FailurePcs) =>
          \A j \in 1..Len(StageOrder) :
            (j < StageAt(pc) /\ state[1].nodes[StageOrder[j]].status = "completed")
              => /\ state'[1].nodes[StageOrder[j]] = state[1].nodes[StageOrder[j]]
                 /\ stateJson'[1].nodes[StageOrder[j]] = state[1].nodes[StageOrder[j]]
                 /\ ArtifactOf(StageOrder[j]) \in files
                 /\ ArtifactOf(StageOrder[j]) \in files'
     /\ pc = "rejected" => UNCHANGED <<state, stateJson, files>>]_vars

(* a run recorded as failed in state.json whose Seed stage is still        *)
(* recorded as completed with its output                                   *)
C27_Witness ==
  /\ stateJson # <<>>
  /\ stateJson[1].status = "failed"
  /\ stateJson[1].nodes["divergeGenerate"].status = "failed"
  /\ stateJson[1].nodes["seed"].status = "completed"
  /\ stateJson[1].nodes["seed"].output = <<seedOutput>>
  /\ ArtifactOf("seed") \in files


----------------------------------------------------------------------------
(* The status that state.json records for the subject of status event e:   *)
(* the run for a run-status event, the stage for a node-status event       *)
PersistedStatusOf(sj, e) ==
  IF sj = <<>> THEN "none"
  ELSE IF e.type = "run-status" THEN sj[1].status
  ELSE sj[1].nodes[e.nodeId].status

IsStatusEvent(e) == e.type \in {"run-status", "node-status"}

(* The events published by the step *)
Published == {i \in 1..Len(events') : i > Len(events)}

(* C30: every status transition is persisted before it is published: when *)
(* a node-status or run-status event is emitted, run-status=failed         *)
(* included, state.json already records the status the event carries.      *)
C30_PersistedBeforePublished ==
  [][\A i \in Published :
       IsStatusEvent(events'[i])
         => PersistedStatusOf(stateJson', events'[i]) = events'[i].status]_vars


----------------------------------------------------------------------------
(* runPipeline's promise of accepted run i is settled *)
RunSettled(i) == runs[i].pc \in {"resolved", "rejected"}

(* the channel of accepted run i is torn down: its emitter has been        *)
(* removed from the hub and its listeners removed                          *)
TornDown(i) == ~emitterObjs[runs[i].emitter].listening

(* C21: every channel opened with hub.create(runId) at run start is        *)
(* eventually torn down, whatever way the run ends: cleanup is scheduled   *)
(* for every started run, so once the run has ended its cleanup timer is   *)
(* pending or has already removed the emitter from the hub.                *)
C21_CleanupScheduledForEveryRun ==
  \A i \in Accepted :
    RunSettled(i) => (runs[i].runId[1] \in Range(timers) \/ TornDown(i))


----------------------------------------------------------------------------
(* subscription s was opened after the hub had been given a terminal       *)
(* run-status event of its run                                             *)
SubscribedAfterTerminal(s) ==
  \E j \in 1..subscriptions[s].since :
    IsTerminalEvent(Logged(subscriptions[s].runId)[j])

(* the grace period of run `id` is over: its emitter has been removed and  *)
(* no cleanup timer of it is pending, so the hub takes no further step for *)
(* the run                                                                 *)
GraceOver(id) == id \notin DOMAIN emitters /\ id \notin Range(timers)

(* C22: a Subscribe call made after the run reached a terminal status      *)
(* either returns NotFound or yields a stream that the server closes: once *)
(* the grace period is over no such subscriber is still connected to a     *)
(* stream that will carry no further event.                                *)
C22_LateSubscriberNotLeftOpen ==
  \A s \in DOMAIN subscriptions :
    (SubscribedAfterTerminal(s) /\ GraceOver(subscriptions[s].runId))
      => subscriptions[s].conn # "open"


----------------------------------------------------------------------------
(* a step in which the hub is given an event of run `id` *)
Publishes(id) == Len(Logged(id))' = Len(Logged(id)) + 1

(* the fan-out set of run `id` is empty *)
NoSubscribers(id) == Listeners(id) = <<>>

(* no event reaches a subscriber except by being published while the       *)
(* subscriber is in the fan-out set: a stream starts empty and grows only  *)
(* by the event of the step, written to a subscriber registered before it  *)
DeliveredOnlyWhenPublished ==
  [][\A s \in DOMAIN subscriptions' :
       IF s \notin DOMAIN subscriptions
         THEN subscriptions'[s].received = <<>>
         ELSE \/ subscriptions'[s].received = subscriptions[s].received
              \/ /\ IsListener(s)
                 /\ Publishes(subscriptions[s].runId)
                 /\ subscriptions'[s].received =
                      Append(subscriptions[s].received,
                             payload(subscriptions[s].runId,
                                     Logged(subscriptions[s].runId)'[Len(Logged(subscriptions[s].runId)')]))]_vars

(* C23, as claimed: an event is delivered only to the subscribers          *)
(* registered at the moment it is published, never later, and publishing   *)
(* with zero subscribers leaves the state of the hub unchanged.            *)
C23_NoReplayAndNoOpWithoutSubscribers ==
  /\ DeliveredOnlyWhenPublished
  /\ [][\A id \in DOMAIN emitters :
          (Publishes(id) /\ NoSubscribers(id))
            => UNCHANGED <<emitterObjs, emitters, subscriptions, subscribers, timers>>]_vars

(* C23, amended: an event is delivered only to the subscribers registered  *)
(* at the moment it is published, never later; publishing with zero        *)
(* subscribers writes to no stream, queues nothing and leaves the emitters *)
(* and the fan-out sets unchanged, and its only effect on the hub is that  *)
(* a terminal run-status event schedules the cleanup timer of the run.     *)
C23_NoReplayAndOnlyCleanupScheduled ==
  /\ DeliveredOnlyWhenPublished
  /\ [][\A id \in DOMAIN emitters :
          (Publishes(id) /\ NoSubscribers(id))
            => /\ UNCHANGED <<emitterObjs, emitters, subscriptions, subscribers>>
               /\ timers' = IF IsTerminalEvent(Logged(id)'[Len(Logged(id)')])
                              THEN Append(timers, id) ELSE timers]_vars

(* a subscriber that joined after the first event of its run and has       *)
(* received the next one, and nothing of what was published before         *)
C23_Witness ==
  \E s \in DOMAIN subscriptions :
    /\ subscriptions[s].since >= 1
    /\ Len(Logged(subscriptions[s].runId)) > subscriptions[s].since
    /\ subscriptions[s].received = Due(s)
    /\ Len(subscriptions[s].received) = 1


----------------------------------------------------------------------------
(* the step is a GET request on the given route *)
Answered(route) ==
  /\ UNCHANGED <<runs, disk>>
  /\ response'.route = route

(* the state.json files that are there, truncated ones included *)
StateFiles == {d \in DOMAIN disk : disk[d] # <<>>}

(* C24: a reader (GET /runs or GET /runs/:id) that runs concurrently with  *)
(* a write of state.json never observes a partially written file: no read  *)
(* fails on, or returns, an incomplete state.json.                         *)
C24_ReadersNeverSeePartialFile ==
  /\ response.error # E_JSON
  /\ Truncated \notin response.states


----------------------------------------------------------------------------
(* the run directories that have no state.json *)
DirsWithoutState == {d \in DOMAIN disk : disk[d] = <<>>}

(* C29: a run directory without state.json is treated as not found: it is *)
(* left out of the result of GET /runs, which lists every run that has a   *)
(* state.json and does not fail because of the directory, and GET          *)
(* /runs/:id for it answers 404 NotFound.                                  *)
C29_DirWithoutStateIsNotFound ==
  [][/\ (Answered("/runs") /\ response'.status = 200)
          => response'.states = {disk[d][1] : d \in StateFiles}
     /\ (Answered("/runs") /\ response'.status # 200)
          => \/ response'.error = E_IO
             \/ response'.error = E_JSON /\ \E d \in StateFiles : disk[d] = <<Truncated>>
     /\ (Answered("/runs/:id") /\ response'.id[1] \in DirsWithoutState)
          => /\ response'.status = 404
             /\ response'.error = E_NOT_FOUND]_vars

(* GET /runs has listed a run while another run directory had no           *)
(* state.json                                                              *)
C29_Witness ==
  /\ response.route = "/runs"
  /\ response.status = 200
  /\ response.states # {}
  /\ DirsWithoutState # {}


----------------------------------------------------------------------------
(* the accepted runs have pairwise different run IDs *)
DistinctRunIds ==
  \A i, j \in Accepted : i # j => runs[i].runId # runs[j].runId

(* the step is a step of run i *)
StepOf(i) == i \in DOMAIN runs /\ runs'[i] # runs[i]

(* what belongs to run ID `id`: its directory, its subscribers and their   *)
(* streams, its cleanup timers and the events the hub was given for it     *)
Directory(d, id) == IF id \in DOMAIN d THEN <<d[id]>> ELSE <<>>
StreamsOf(subs, id) == [s \in {x \in DOMAIN subs : subs[x].runId = id} |-> subs[s].received]
TimersOf(ts, id) == SelectSeq(ts, LAMBDA x : x = id)

(* C28: for two concurrently executing runs with different run IDs, under  *)
(* every interleaving, the events published by one run are delivered only  *)
(* to the subscribers of that run, and each step of a run reads and writes *)
(* only the state and the run directory of that run: the other run, its    *)
(* directory, its subscribers, their streams and its timers are unchanged. *)
C28_RunsAreIsolated ==
  /\ [](DistinctRunIds =>
          \A s \in DOMAIN subscriptions :
            \A n \in 1..Len(subscriptions[s].received) :
              LET p == subscriptions[s].received[n][2] IN
                /\ p.runId = subscriptions[s].runId
                /\ \E j \in 1..Len(Logged(p.runId)) : Logged(p.runId)[j] = p.event)
  /\ [][\A i \in Accepted :
          (DistinctRunIds /\ StepOf(i)) =>
            \A j \in Accepted \ {i} :
              LET other == runs[j].runId[1] IN
                /\ runs'[j] = runs[j]
                /\ emitterObjs'[runs[j].emitter] = emitterObjs[runs[j].emitter]
                /\ Directory(disk', other) = Directory(disk, other)
                /\ Listeners(other)' = Listeners(other)
                /\ Logged(other)' = Logged(other)
                /\ StreamsOf(subscriptions', other) = StreamsOf(subscriptions, other)
                /\ TimersOf(timers', other) = TimersOf(timers, other)]_vars

(* two runs with different IDs, each with a subscriber that has received   *)
(* an event of its own run while the other run was publishing too          *)
C28_Witness ==
  /\ DistinctRunIds
  /\ \E i, j \in Accepted :
       /\ i # j
       /\ runs[i].sent >= 1 /\ runs[j].sent >= 1
       /\ \E s, t \in DOMAIN subscriptions :
            /\ subscriptions[s].runId = runs[i].runId[1]
            /\ subscriptions[t].runId = runs[j].runId[1]
            /\ subscriptions[s].received # <<>>
            /\ subscriptions[t].received # <<>>


----------------------------------------------------------------------------
(* GET /runs/:id for run ID `id` would answer 404 *)
NotFound(id) == readRunState(id).code = "ENOENT"

(* C31: the initial RunState of a run is persisted before the hub channel  *)
(* of its run ID is opened: whenever the hub holds an emitter for a run ID *)
(* state.json of that run exists, so a Subscribe call that succeeds is     *)
(* never made for a run that GET /runs/:id reports as not found.           *)
C31_PersistedBeforeChannelOpens ==
  /\ [](\A id \in DOMAIN emitters : ~NotFound(id))
  /\ [][\A s \in DOMAIN subscriptions' :
          s \notin DOMAIN subscriptions => ~NotFound(subscriptions'[s].runId)]_vars


----------------------------------------------------------------------------
(* the stages of snapshot s that have an output although their status is   *)
(* not completed                                                           *)
OutputWithoutCompletion(s) ==
  {id \in NodeKey : s.nodes[id].output # <<>> /\ s.nodes[id].status # "completed"}

(* C32: in every RunState snapshot, in memory and as written to            *)
(* state.json, the output of a stage is null unless the status of that     *)
(* stage is completed.                                                     *)
C32_OutputOnlyWhenCompleted ==
  /\ state # <<>> => OutputWithoutCompletion(state[1]) = {}
  /\ stateJson # <<>> => OutputWithoutCompletion(stateJson[1]) = {}


----------------------------------------------------------------------------
(* the positions in the event stream of the events of a type, and of the   *)
(* events equal to a given one                                             *)
EventsOfType(type) == {i \in 1..Len(events) : events[i].type = type}
PositionsOf(e) == {i \in 1..Len(events) : events[i] = e}

(* C33: every completed run publishes exactly one package-ready event,     *)
(* after the stage-output event of the Package stage and before            *)
(* run-status=completed; a failed run publishes none.                      *)
C33_OnePackageReadyPerCompletedRun ==
  /\ PositionsOf(RunStatusEvent("completed", Undefined)) # {}
       => /\ Cardinality(EventsOfType("package-ready")) = 1
          /\ \A r \in EventsOfType("package-ready") :
               /\ \E o \in PositionsOf(NodeIOEvent("packageOutput")) : o < r
               /\ \A c \in PositionsOf(RunStatusEvent("completed", Undefined)) : r < c
  /\ (state # <<>> /\ state[1].status = "failed")
       => EventsOfType("package-ready") = {}


----------------------------------------------------------------------------
(* snapshot s has at most one running stage, and every stage that has left *)
(* pending comes after completed stages only                               *)
InPipelineOrder(s) ==
  /\ Cardinality({id \in NodeKey : s.nodes[id].status = "running"}) <= 1
  /\ \A j \in 1..Len(StageOrder) :
       s.nodes[StageOrder[j]].status # "pending"
         => \A i \in 1..(j - 1) : s.nodes[StageOrder[i]].status = "completed"

(* C34: within one run the stages execute strictly in the order seed,      *)
(* divergeGenerate, packageOutput: in every reachable state, in memory and *)
(* in state.json, at most one stage is running, and a stage leaves pending *)
(* only when every earlier stage is completed.                             *)
C34_StagesInOrder ==
  /\ [](state # <<>> => InPipelineOrder(state[1]))
  /\ [](stateJson # <<>> => InPipelineOrder(stateJson[1]))
  /\ [][\A j \in 1..Len(StageOrder) :
          (state # <<>> /\ state[1].nodes[StageOrder[j]].status = "pending"
                        /\ state'[1].nodes[StageOrder[j]].status # "pending")
            => /\ state'[1].nodes[StageOrder[j]].status = "running"
               /\ \A i \in 1..(j - 1) : state[1].nodes[StageOrder[i]].status = "completed"]_vars

(* the Package stage is running after the two stages before it completed *)
C34_Witness ==
  /\ stateJson # <<>>
  /\ stateJson[1].nodes["packageOutput"].status = "running"
  /\ stateJson[1].nodes["divergeGenerate"].status = "completed"
  /\ stateJson[1].nodes["seed"].status = "completed"


----------------------------------------------------------------------------
(* the snapshots, in memory and in state.json, whose Generate stage is     *)
(* completed                                                               *)
GenerateCompleted ==
  {s \in {state, stateJson} :
     s # <<>> /\ s[1].nodes["divergeGenerate"].status = "completed"}

(* the output o holds the leading ideas of the adapter's answer, in the    *)
(* adapter's order, and no more than `count` of them                       *)
LeadingIdeas(o, count) ==
  /\ o.ideaCount = Len(o.ideas)
  /\ Len(o.ideas) <= count
  /\ IsPrefix(o.ideas, generatedIdeas)
  /\ Len(generatedIdeas) >= count => Len(o.ideas) = count

----------------------------------------------------------------------------
(* the positions of the terminal run-status events in the event stream *)
TerminalPositions ==
  {i \in 1..Len(events) :
     events[i].type = "run-status" /\ events[i].status \in Terminal}

(* C38: the first event a run publishes is run-status=running, it          *)
(* publishes at most one terminal run-status event, completed or failed,   *)
(* and no event of any type after it; in a failed run the                  *)
(* stage-status=failed event comes before run-status=failed.               *)
C38_RunEventsWellOrdered ==
  /\ events # <<>> => events[1] = RunStatusEvent("running", Undefined)
  /\ Cardinality(TerminalPositions) <= 1
  /\ \A t \in TerminalPositions : t = Len(events)
  /\ \A t \in TerminalPositions :
       events[t].status = "failed"
         => \E n \in 1..(t - 1) :
              /\ events[n].type = "node-status"
              /\ events[n].status = "failed"

(* a failed run that has settled: its stream ends with stage-status=failed *)
(* of the Generate stage and then run-status=failed                        *)
C38_Witness ==
  /\ pc = "logged"
  /\ Len(events) >= 3
  /\ events[Len(events)] = RunStatusEvent("failed", message)
  /\ events[Len(events) - 1] = NodeStatusEvent("divergeGenerate", "failed", message)


----------------------------------------------------------------------------
(* the artifacts of a completed run *)
Artifacts ==
  {ArtifactOf(id) : id \in NodeKey} \cup {"brief.md", "token_usage.json"}

(* C39: whenever state.json of a run has status completed, all the         *)
(* artifacts of the run are on disk: the three node_io files, brief.md and *)
(* token_usage.json, so that GET /runs/:id for a run reported completed    *)
(* includes the brief and the usage.                                       *)
C39_CompletedRunHasAllArtifacts ==
  (stateJson # <<>> /\ stateJson[1].status = "completed")
    => Artifacts \subseteq files


(* C39, amended: whenever state.json of a run has status completed, the    *)
(* three node_io files and brief.md are on disk; token_usage.json is       *)
(* written after that state.json and is on disk by the time                *)
(* run-status=completed is published.                                      *)
C39_CompletedRunHasArtifactsUsageLast ==
  /\ (stateJson # <<>> /\ stateJson[1].status = "completed")
       => (Artifacts \ {"token_usage.json"}) \subseteq files
  /\ PositionsOf(RunStatusEvent("completed", Undefined)) # {}
       => /\ Artifacts \subseteq files
          /\ stateJson[1].status = "completed"

(* state.json says completed and token_usage.json is not written yet *)
C39_Witness ==
  /\ stateJson # <<>> /\ stateJson[1].status = "completed"
  /\ pc = "persistUsage"
  /\ (Artifacts \ {"token_usage.json"}) \subseteq files
  /\ "token_usage.json" \notin files


----------------------------------------------------------------------------
(* what a step may change of subscription s without touching its place in  *)
(* the fan-out set or its keep-alive timer                                 *)
Pairing(sub) == [heartbeat |-> sub.heartbeat, conn |-> sub.conn]

(* a step in which the keep-alive timer of s is cancelled *)
TimerCancelled(s) == subscriptions[s].heartbeat /\ ~subscriptions'[s].heartbeat

(* C40: in every hub state each subscriber in the fan-out set of a run has *)
(* one active keep-alive timer, and no timer is active for a subscriber    *)
(* outside the set: Subscribe adds both together, a connection close or a  *)
(* failed keep-alive write removes the subscriber and cancels its timer    *)
(* together, and such a step leaves every other subscriber, its place in   *)
(* the set and its timer unchanged.                                        *)
C40_SubscriberAndTimerPaired ==
  /\ [](\A s \in DOMAIN subscriptions : IsListener(s) <=> subscriptions[s].heartbeat)
  /\ [](\A id \in DOMAIN subscribers :
          \A m, n \in 1..Len(subscribers[id]) :
            subscribers[id][m] = subscribers[id][n] => m = n)
  /\ [][\A s \in DOMAIN subscriptions' :
          s \notin DOMAIN subscriptions
            => subscriptions'[s].heartbeat /\ IsListener(s)']_vars
  /\ [][\A s \in DOMAIN subscriptions :
          TimerCancelled(s) =>
            /\ ~IsListener(s)'
            /\ \A t \in DOMAIN subscriptions \ {s} :
                 /\ subscriptions'[t] = subscriptions[t]
                 /\ IsListener(t)' = IsListener(t)]_vars

(* of two subscribers of a run one has closed its connection: it is out of *)
(* the set and its timer is cancelled, the other keeps both                *)
C40_Witness ==
  \E s, t \in DOMAIN subscriptions :
    /\ s # t
    /\ subscriptions[s].runId = subscriptions[t].runId
    /\ subscriptions[s].conn = "closed"
    /\ ~subscriptions[s].heartbeat /\ ~IsListener(s)
    /\ subscriptions[t].heartbeat /\ IsListener(t)


----------------------------------------------------------------------------
(* run i has been given its channel and has not yet published its terminal *)
(* run-status event                                                        *)
NonTerminal(i) ==
  /\ i \in Accepted
  /\ runs[i].pc \in {"ensureRunsDir", "ensureRunDir", "persistGraph",
                     "persistInitialState", "running", "persistUsage"}

(* an emitter is registered for the ID of run i (GET /runs/:id/events does *)
(* not answer 404) and the listener of the emitter run i emits on is       *)
(* attached                                                                *)
ChannelOpen(i) ==
  /\ runs[i].runId[1] \in DOMAIN emitters
  /\ emitterObjs[runs[i].emitter].listening

(* C35: the channel of a run is never closed while the run is              *)
(* non-terminal: from hub.create until the terminal run-status event the   *)
(* emitter registered for the run ID stays in the hub, and every event the *)
(* run publishes reaches broadcast, for any number of runs started and     *)
(* finished around it.                                                     *)
C35_ChannelOpenWhileNonTerminal ==
  /\ [](\A i \in DOMAIN runs : NonTerminal(i) => ChannelOpen(i))
  /\ [][\A i \in DOMAIN runs :
          (i \in Accepted /\ runs'[i].sent = runs[i].sent + 1)
            => Len(Logged(runs[i].runId[1]))' = Len(Logged(runs[i].runId[1])) + 1]_vars



----------------------------------------------------------------------------
(* subscriber s has stayed connected and none of the writes to it failed *)
Connected(s) ==
  /\ subscriptions[s].conn = "open"
  /\ ~subscriptions[s].threwInBroadcast
  /\ ~subscriptions[s].threwInHeartbeat

(* C37: every subscriber that stays connected, with no failed write, from  *)
(* its Subscribe call until the terminal run-status event of the run       *)
(* receives each event published after it subscribed exactly once and in   *)
(* order: what it has received is the events since it subscribed, and each *)
(* event a run publishes, its terminal one included, adds one payload to   *)
(* the stream of each such subscriber of its run ID.                       *)
C37_ConnectedSubscriberReceivesAll ==
  /\ [](\A s \in DOMAIN subscriptions :
          Connected(s) => subscriptions[s].received = Due(s))
  /\ [][\A i \in DOMAIN runs :
          (NonTerminal(i) /\ runs'[i].sent = runs[i].sent + 1) =>
            \A s \in DOMAIN subscriptions :
              (subscriptions[s].runId = runs[i].runId[1] /\ Connected(s)')
                => Len(subscriptions'[s].received)
                     = Len(subscriptions[s].received) + 1]_vars

(* a subscriber that joined after the first event of a run and stayed      *)
(* connected has received the later events and the terminal one, and not   *)
(* the first                                                               *)
C37_Witness ==
  \E s \in DOMAIN subscriptions :
    /\ Connected(s)
    /\ subscriptions[s].since >= 1
    /\ Len(subscriptions[s].received) >= 2
    /\ IsTerminalEvent(subscriptions[s].received[Len(subscriptions[s].received)][2].event)

====
